---- MODULE Spec2Model ----
(***************************************************************************)
(* Model of the redis-report request handlers:                             *)
(*   - GET /api/drupal      (app/api/drupal/route.ts, scan + aggregation)   *)
(*   - GET /api/search-cid  (app/api/search-cid/route.ts, CID search)       *)
(*   - getTopKeys           (metrics handler, top-keys sampling)            *)
(*                                                                         *)
(* Strings are sequences of symbols.  A symbol is either one of the        *)
(* delimiter characters ":", "[", "]", "=" or a delimiter-free word that   *)
(* is treated as one indivisible character ("render", "abc", ...).  All    *)
(* string operations of the code (split, startsWith, ===, the label        *)
(* regular expression) are modelled on these sequences.                    *)
(* The store is adversarial: every command may fail, SCAN may return any   *)
(* cursor and any batch of keys of StoreKeys.                              *)
(***************************************************************************)
EXTENDS Integers, Sequences, FiniteSets, TLC

\* ---------------------------------------------------------------- bounds
\* largest configured DRUPAL_SCAN_LIMIT explored (0..MaxCap)
MaxCap == 2
\* largest number of keys in one SCAN batch
MaxBatch == MaxCap
\* number of SCAN calls after which the store's iteration is complete
MaxScanCalls == MaxCap
\* number of keys the store hands out to one request, over all its batches
MaxKeys == MaxCap
\* largest explicit `limit` query parameter explored (0..MaxLimit)
MaxLimit == MaxCap - 1
\* largest TOP_KEYS_SAMPLE_COUNT explored
MaxSample == MaxCap

\* ------------------------------------------------------- program constants
\* DRUPAL_REDIS_PREFIX (one-word stand-in for "pantheon-redis-json")
PREFIX == <<"p">>
\* default of the `limit` query parameter
DefaultLimit == 100
\* round-trip cap of the CID search
maxIterations == 10

\* ------------------------------------------------------------ JS values
\* `undefined` for an optional string
Undef == <<"\\undefined">>
\* number | "PERSIST" | undefined | null, as tagged values
Num(n) == [kind |-> "number", val |-> n]
PERSIST == [kind |-> "PERSIST", val |-> 0]
Undefined == [kind |-> "undefined", val |-> 0]
Null == [kind |-> "null", val |-> 0]
\* a command that threw
Fail == [kind |-> "fail", val |-> 0]
Str(w) == [kind |-> "string", val |-> w]

\* ------------------------------------------------------- string helpers
Drop(s, n) == SubSeq(s, n + 1, Len(s))
Take(s, n) == SubSeq(s, 1, n)

\* String.prototype.startsWith
StartsWith(s, p) == Len(s) >= Len(p) /\ Take(s, Len(p)) = p

\* String.prototype.split(sep) for a one-symbol separator
RECURSIVE Split(_, _)
Split(s, c) ==
  IF \A i \in 1..Len(s) : s[i] # c
    THEN <<s>>
    ELSE LET i == CHOOSE i \in 1..Len(s) : s[i] = c /\ \A j \in 1..(i - 1) : s[j] # c
         IN  <<Take(s, i - 1)>> \o Split(Drop(s, i), c)

\* positions at which `pat` occurs in `s`
Occurrences(s, pat) ==
  { i \in 1..(Len(s) - Len(pat) + 1) : SubSeq(s, i, i + Len(pat) - 1) = pat }

Min(S) == CHOOSE x \in S : \A y \in S : x <= y

\* key.match(new RegExp(`\\[${label}\\]=(.*?)(?::\\[|$)`)) : the leftmost
\* "[label]=", then the shortest run up to the next ":[" or the end
\* (keys hold no line terminator, so `.` matches every symbol)
get(key, label) ==
  LET pat == <<"[">> \o label \o <<"]", "=">>
      occ == Occurrences(key, pat)
  IN  IF occ = {} THEN Undef
      ELSE LET rest == Drop(key, Min(occ) + Len(pat) - 1)
               stop == Occurrences(rest, <<":", "[">>)
           IN  IF stop = {} THEN rest ELSE Take(rest, Min(stop) - 1)

\* const cap = (v?: string) => (v === undefined ? undefined : v)
cap(v) == IF v = Undef THEN Undef ELSE v

\* parts[1] || "unknown"
BinOf(key) ==
  LET parts == Split(key, ":")
  IN  IF Len(parts) >= 2 /\ parts[2] # <<>> THEN parts[2] ELSE <<"unknown">>

\* parseKey(key): Row (ttl and bytes are filled in by the handler)
parseKey(key) ==
  [ key |-> key,
    bin |-> BinOf(key),
    route |-> cap(get(key, <<"route">>)),
    theme |-> cap(get(key, <<"theme">>)),
    url |-> cap(get(key, <<"url">>)),
    urlPath |-> cap(get(key, <<"url", ".", "path">>)),
    langContent |-> cap(get(key, <<"languages", ":", "language_content">>)),
    langInterface |-> cap(get(key, <<"languages", ":", "language_interface">>)),
    isAnon |-> (get(key, <<"user", ".", "roles", ":", "anonymous">>) = <<"true">>),
    isAuth |-> (get(key, <<"user", ".", "roles", ":", "authenticated">>) = <<"true">>),
    ttl |-> Undefined,
    bytes |-> Undefined,
    \* history: what the store replied for this key
    ttlReply |-> Undefined,
    bytesReply |-> Undefined ]

\* JS truthiness of an optional string
Truthy(s) == s # Undef /\ s # <<>>

\* ----------------------------------------------------------- aggregation
\* A Record<string, ...> is a sequence of entries in insertion order; the
\* field `name` is the property name.
IndexOf(entries, name) ==
  IF \E i \in 1..Len(entries) : entries[i].name = name
    THEN CHOOSE i \in 1..Len(entries) : entries[i].name = name
    ELSE 0

\* r.bytes || 0
BytesOf(r) == IF r.bytes.kind = "number" THEN r.bytes.val ELSE 0

\* Math.round((a + b) / 2) for non-negative integers
RoundAvg(a, b) == (a + b + 1) \div 2

\* mutant of AvgTTLStep: every numeric TTL is averaged, -2 included
AvgTTLStepAnyNumber(avg, r) ==
  IF r.ttl.kind = "number"
    THEN IF avg.kind = "null" THEN Num(r.ttl.val)
         ELSE Num(RoundAvg(avg.val, r.ttl.val))
    ELSE avg

\* b.avgTTL after row r
AvgTTLStep(avg, r) ==
  IF r.ttl.kind = "number" /\ r.ttl.val >= 0
    THEN IF avg.kind = "null" THEN Num(r.ttl.val)
         ELSE Num(RoundAvg(avg.val, r.ttl.val))
    ELSE avg

\* property names an object literal `{}` inherits from Object.prototype
\* (likewise toString, valueOf, hasOwnProperty, __proto__, ...): reading
\* one from a Record yields the inherited, truthy member, so no entry is
\* created, the updates land on that member and Object.entries never lists
\* the name
Inherited == {<<"constructor">>}

\* the `bins` part of one iteration of `for (const r of rows)`
BinsStep(bins, r) ==
  IF r.bin \in Inherited THEN bins ELSE
  LET created == IF IndexOf(bins, r.bin) = 0
                   THEN Append(bins, [name |-> r.bin, count |-> 0, totalBytes |-> 0,
                                      avgTTL |-> Null, maxBytes |-> 0, maxKey |-> Undef])
                   ELSE bins
      i == IndexOf(created, r.bin)
      b == created[i]
      bytes == BytesOf(r)
  IN  [created EXCEPT ![i] =
        [name |-> b.name,
         count |-> b.count + 1,
         totalBytes |-> b.totalBytes + bytes,
         avgTTL |-> AvgTTLStep(b.avgTTL, r),
         maxBytes |-> IF bytes > b.maxBytes THEN bytes ELSE b.maxBytes,
         maxKey |-> IF bytes > b.maxBytes THEN r.key ELSE b.maxKey]]

\* mutant of RoutesStep: url and theme follow the last row seen
RoutesStepLastSeen(routes, r) ==
  IF r.bin = <<"dynamic_page_cache">> /\ Truthy(r.route) /\ r.route \notin Inherited
    THEN LET created == IF IndexOf(routes, r.route) = 0
                          THEN Append(routes, [name |-> r.route, bytes |-> 0, count |-> 0,
                                               url |-> Undef, theme |-> Undef])
                          ELSE routes
             i == IndexOf(created, r.route)
         IN  [created EXCEPT ![i].count = @ + 1, ![i].bytes = @ + BytesOf(r),
                             ![i].url = IF Truthy(r.url) THEN r.url ELSE r.urlPath,
                             ![i].theme = r.theme]
    ELSE routes

\* mutant of RoutesStep: every bin feeds the route aggregate
RoutesStepAnyBin(routes, r) ==
  IF Truthy(r.route) /\ r.route \notin Inherited
    THEN LET created == IF IndexOf(routes, r.route) = 0
                          THEN Append(routes, [name |-> r.route, bytes |-> 0, count |-> 0,
                                               url |-> IF Truthy(r.url) THEN r.url ELSE r.urlPath,
                                               theme |-> r.theme])
                          ELSE routes
             i == IndexOf(created, r.route)
         IN  [created EXCEPT ![i].count = @ + 1, ![i].bytes = @ + BytesOf(r)]
    ELSE routes

\* the `routes` part (dynamic_page_cache rows with a truthy route only)
RoutesStep(routes, r) ==
  IF r.bin = <<"dynamic_page_cache">> /\ Truthy(r.route) /\ r.route \notin Inherited
    THEN LET created == IF IndexOf(routes, r.route) = 0
                          THEN Append(routes, [name |-> r.route, bytes |-> 0, count |-> 0,
                                               url |-> IF Truthy(r.url) THEN r.url ELSE r.urlPath,
                                               theme |-> r.theme])
                          ELSE routes
             i == IndexOf(created, r.route)
         IN  [created EXCEPT ![i].count = @ + 1, ![i].bytes = @ + BytesOf(r)]
    ELSE routes

\* count/bytes entry update shared by `themes` and `langs`
CountStep(entries, name, r) ==
  IF name \in Inherited THEN entries ELSE
  LET created == IF IndexOf(entries, name) = 0
                   THEN Append(entries, [name |-> name, bytes |-> 0, count |-> 0])
                   ELSE entries
      i == IndexOf(created, name)
  IN  [created EXCEPT ![i].count = @ + 1, ![i].bytes = @ + BytesOf(r)]

ThemesStep(themes, r) ==
  IF Truthy(r.theme) THEN CountStep(themes, r.theme, r) ELSE themes

\* const lc = r.langContent || "n/a"
LangsStep(langs, r) ==
  CountStep(langs, IF Truthy(r.langContent) THEN r.langContent ELSE <<"n/a">>, r)

EmptyAcc ==
  [bins |-> <<>>, routes |-> <<>>, themes |-> <<>>, langs |-> <<>>,
   anonCount |-> 0, authCount |-> 0]

\* mutant of FoldStep: the anonymous/authenticated counters count every bin
FoldStepAnyBin(acc, r) ==
  [bins |-> BinsStep(acc.bins, r),
   routes |-> RoutesStep(acc.routes, r),
   themes |-> ThemesStep(acc.themes, r),
   langs |-> LangsStep(acc.langs, r),
   anonCount |-> acc.anonCount + (IF r.isAnon THEN 1 ELSE 0),
   authCount |-> acc.authCount + (IF r.isAuth THEN 1 ELSE 0)]

\* one iteration of the aggregation loop
FoldStep(acc, r) ==
  [bins |-> BinsStep(acc.bins, r),
   routes |-> RoutesStep(acc.routes, r),
   themes |-> ThemesStep(acc.themes, r),
   langs |-> LangsStep(acc.langs, r),
   anonCount |-> acc.anonCount +
                 (IF r.bin = <<"dynamic_page_cache">> /\ r.isAnon THEN 1 ELSE 0),
   authCount |-> acc.authCount +
                 (IF r.bin = <<"dynamic_page_cache">> /\ r.isAuth THEN 1 ELSE 0)]

\* for (const r of rows) { ... }
RECURSIVE Fold(_, _)
Fold(acc, rs) ==
  IF rs = <<>> THEN acc ELSE Fold(FoldStep(acc, Head(rs)), Tail(rs))

\* mutant of SortDesc: the comparator is (a, b) => kf[a] - kf[b], ascending
SortAsc(entries, ks) ==
  LET n == Len(entries)
      rank(i) == 1 + Cardinality({ j \in 1..n : ks[j] < ks[i] \/ (ks[j] = ks[i] /\ j < i) })
  IN  [ r \in 1..n |-> entries[CHOOSE i \in 1..n : rank(i) = r] ]

\* Array.prototype.sort((a, b) => kf[b] - kf[a]) : stable, descending by the
\* integer sort keys ks (ks[i] is the sort key of entries[i])
SortDesc(entries, ks) ==
  LET n == Len(entries)
      rank(i) == 1 + Cardinality({ j \in 1..n : ks[j] > ks[i] \/ (ks[j] = ks[i] /\ j < i) })
  IN  [ r \in 1..n |-> entries[CHOOSE i \in 1..n : rank(i) = r] ]

SortByBytes(entries) ==
  SortDesc(entries, [ i \in 1..Len(entries) |-> entries[i].bytes ])

SortByTotalBytes(entries) ==
  SortDesc(entries, [ i \in 1..Len(entries) |-> entries[i].totalBytes ])

\* Array.prototype.slice(0, n): a negative n counts from the end
Slice(s, n) ==
  IF n < 0 THEN (IF Len(s) + n <= 0 THEN <<>> ELSE Take(s, Len(s) + n))
  ELSE IF n >= Len(s) THEN s ELSE Take(s, n)

VARIABLE
  TOP_LIMIT     \* Number(process.env.DRUPAL_TOP_LIMIT || 25)

\* the finalisation and the ok:true body of GET /api/drupal
Finalise(acc, scanned) ==
  [ok |-> TRUE,
   status |-> 200,
   scanned |-> scanned,
   bins |-> SortByTotalBytes(acc.bins),
   topRoutes |-> Slice(SortByBytes(acc.routes), TOP_LIMIT),
   themes |-> SortByBytes(acc.themes),
   languages |-> SortByBytes(acc.langs),
   authVsAnon |-> [authCount |-> acc.authCount, anonCount |-> acc.anonCount]]

\* aggregation of all rows, then the response
Report(keys, rows) == Finalise(Fold(EmptyAcc, rows), Len(keys))

\* the catch-all body { ok: false, error } with status 500
ErrorResponse == [ok |-> FALSE, status |-> 500, error |-> "error"]

\* the input-validation body with status 400
MissingCidResponse == [ok |-> FALSE, status |-> 400, error |-> "Missing 'cid' parameter"]

\* no response sent yet
NoResponse == [status |-> 0]

\* ------------------------------------------------------------- the store
\* keys the store may hand out
KeyRouteTheme ==
  <<"p", ":", "dynamic_page_cache", ":", "abc", ":", "[", "route", "]", "=", "R",
    ":", "[", "theme", "]", "=", "T">>
KeyRender == <<"p", ":", "render", ":", "abc", "[", "x", "]", "=", "1", "]">>
KeyRenderLong == <<"p", ":", "render", ":", "abc", "def", "[", "x", "]", "=", "1", "]">>
KeyOtherPrefix == <<"q", ":", "render", ":", "abc">>

StoreKeys == {KeyRouteTheme, KeyRender, KeyRenderLong, KeyOtherPrefix}

\* sequences over S of length at most n
SeqsUpTo(S, n) == UNION { [1..m -> S] : m \in 0..n }

\* replies of SCAN: failure, or [next cursor, batch]
Cursors == {"0", "1"}
ScanReplies ==
  {[ok |-> FALSE, next |-> "0", batch |-> <<>>]} \cup
  [ok : {TRUE}, next : Cursors, batch : SeqsUpTo(StoreKeys, MaxBatch)]

\* replies of TTL: failure, -2 (absent), -1 (no expiry), seconds
TtlReplies == {Fail, Num(-1), Num(0), Num(5)}

\* replies of MEMORY USAGE: failure, null (absent key), bytes
MemReplies == {Fail, Num(3)}

Commands == {"connect", "ping", "scan", "ttl", "type", "memory"}

\* ----------------------------------------------------------------- state
VARIABLES
  handler,      \* which handler serves the request
  pc,           \* position of the handler
  SCAN_LIMIT,   \* Number(process.env.DRUPAL_SCAN_LIMIT || 3000)
  cid,          \* searchParams.get("cid")
  bin,          \* searchParams.get("bin")
  limit,        \* Number(searchParams.get("limit") || 100)
  iterations,   \* `iterations` of the CID search loop
  sampleCount,  \* Number(process.env.TOP_KEYS_SAMPLE_COUNT || 2000)
  topLimit,     \* Number(process.env.TOP_KEYS_LIMIT || 25)
  cursor,       \* `cursor`
  keys,         \* `keys` (`sampled` in getTopKeys)
  r,            \* the row under construction in the per-key loop
  rows,         \* `rows` / `results`
  response,     \* the response sent
  issued,       \* history: number of store commands issued, per command
  received,     \* history: concatenation of the batches SCAN returned to scan()
  returned,     \* history: number of keys SCAN handed out so far
  failed,       \* history: the commands ("ping", "scan") that threw
  acc,          \* `bins`, `routes`, `themes`, `langs`, `authCount`, `anonCount`
  folded,       \* number of rows the aggregation loop has consumed
  run,          \* which request over the same rows is being served
  first,        \* history: the response of the first request
  infoText,     \* the text redis.info() returned
  info,         \* what the two parseInfo functions returned for infoText
  env,          \* process.env: the configuration file as read at process start
  envFile,      \* the content of .env.local, by variable name
  config,       \* `config` of the settings form, the body of the POST
  store,        \* the unchanging store two concurrent requests read
  reqs,         \* the locals of each of the two concurrent requests
  shared        \* what the requests have written outside their locals

\* the request's inputs and configuration, fixed from Init on
inputs == <<handler, SCAN_LIMIT, TOP_LIMIT, cid, bin, limit, sampleCount, topLimit>>

\* the state of the aggregation loop taken one row at a time
foldvars == <<acc, folded, run, first>>

\* the state of the configuration handlers
configvars == <<env, envFile, config>>

\* the state of two concurrent requests
pairvars == <<store, reqs, shared>>

\* the state of the handlers that do not scan
othervars == <<infoText, info, configvars, pairvars>>

\* no INFO text parsed; `parsed` names the handlers that have parsed
NoInfo == [metrics |-> <<>>, summary |-> <<>>, parsed |-> {}]

\* the configuration variables the model follows; REDIS_HOST stands for
\* the variables written under the same test (REDIS_PORT, REDIS_USERNAME,
\* REDIS_TLS, REDIS_CLUSTER, DRUPAL_*, TOP_KEYS_*)
ConfigFields == {"REDIS_URL", "REDIS_HOST", "REDIS_PASSWORD"}

\* no variable set
NoEnv == [f \in ConfigFields |-> <<>>]

NoConfig ==
  /\ env = NoEnv
  /\ envFile = NoEnv
  /\ config = NoEnv

\* no concurrent requests
NoPair ==
  /\ store = <<>>
  /\ reqs = <<>>
  /\ shared = {}

NoOther ==
  /\ infoText = <<>>
  /\ info = NoInfo
  /\ NoConfig
  /\ NoPair

vars == <<inputs, foldvars, othervars, pc, iterations, cursor, keys, r, rows, response, issued,
          received, returned, failed>>

Issue(cmd) == [issued EXCEPT ![cmd] = @ + 1]

NoRow == parseKey(<<>>)

\* mutant of PushBatch: the cap is never tested
PushBatchNoCap(ks, batch, lim) == [keys |-> ks \o batch, hit |-> FALSE]

\* for (const k of batch) { keys.push(k); if (keys.length >= SCAN_LIMIT) { cursor = "0"; break; } }
RECURSIVE PushBatch(_, _, _)
PushBatch(ks, batch, lim) ==
  IF batch = <<>> THEN [keys |-> ks, hit |-> FALSE]
  ELSE LET pushed == Append(ks, Head(batch))
       IN  IF Len(pushed) >= lim THEN [keys |-> pushed, hit |-> TRUE]
           ELSE PushBatch(pushed, Tail(batch), lim)

\* mutant of TtlMark: the -1 sentinel is passed through
TtlMarkNone(ttl) == Num(ttl)

\* r.ttl = ttl === -1 ? "PERSIST" : ttl
TtlMark(ttl) == IF ttl = -1 THEN PERSIST ELSE Num(ttl)

InitCommon ==
  /\ pc = "start"
  /\ cursor = "0"
  /\ keys = <<>>
  /\ r = NoRow
  /\ rows = <<>>
  /\ response = NoResponse
  /\ issued = [c \in Commands |-> 0]
  /\ received = <<>>
  /\ returned = 0
  /\ failed = {}
  /\ iterations = 0
  /\ acc = EmptyAcc
  /\ folded = 0
  /\ run = 1
  /\ first = NoResponse

\* ---------------------------------------------------- GET /api/drupal
\* mutant of DrupalPing: a failing ping is swallowed like the per-key
\* failures
DrupalPingSwallowed ==
  /\ handler = "drupal" /\ pc = "start"
  /\ issued' = Issue("ping")
  /\ \E ok \in BOOLEAN :
       /\ pc' = "scan" /\ response' = response
       /\ failed' = IF ok THEN failed ELSE failed \cup {"ping"}
  /\ UNCHANGED <<inputs, othervars, foldvars, iterations, cursor, keys, r, rows, received, returned>>

\* await redis.ping()
DrupalPing ==
  /\ handler = "drupal" /\ pc = "start"
  /\ issued' = Issue("ping")
  /\ \E ok \in BOOLEAN :
       IF ok THEN pc' = "scan" /\ response' = response /\ failed' = failed
       ELSE pc' = "done" /\ response' = ErrorResponse /\ failed' = failed \cup {"ping"}
  /\ UNCHANGED <<inputs, othervars, foldvars, iterations, cursor, keys, r, rows, received, returned>>

\* one redis.scan round trip of scan(); when the loop ends with no key the
\* handler goes straight to the response
DrupalScan ==
  /\ handler = "drupal" /\ pc = "scan"
  /\ issued' = Issue("scan")
  /\ \E reply \in ScanReplies :
       /\ (reply.ok /\ issued.scan + 1 >= MaxScanCalls) => reply.next = "0"
       /\ returned + Len(reply.batch) <= MaxKeys
       /\ LET res == IF reply.ok THEN PushBatch(keys, reply.batch, SCAN_LIMIT)
                     ELSE [keys |-> keys, hit |-> FALSE]
              next == IF ~reply.ok THEN cursor
                      ELSE IF res.hit THEN "0" ELSE reply.next
              more == reply.ok /\ next # "0"
          IN  /\ keys' = res.keys
              /\ cursor' = next
              /\ received' = received \o reply.batch
              /\ returned' = returned + Len(reply.batch)
              /\ failed' = IF reply.ok THEN failed ELSE failed \cup {"scan"}
              /\ IF more THEN pc' = "scan" /\ response' = response
                 ELSE IF res.keys = <<>>
                   THEN pc' = "done" /\ response' = Report(<<>>, <<>>)
                   ELSE pc' = "ttl" /\ response' = response
  /\ UNCHANGED <<inputs, othervars, foldvars, iterations, r, rows>>

\* mutant of DrupalTtl: the TTL and MEMORY USAGE of a key are issued
\* together, as under Promise.all, and the row is pushed when both settle
DrupalTtlWithMem ==
  /\ handler = "drupal" /\ pc = "ttl"
  /\ issued' = [issued EXCEPT !["ttl"] = @ + 1, !["memory"] = @ + 1]
  /\ \E reply \in TtlReplies, size \in MemReplies :
       LET row == [parseKey(keys[Len(rows) + 1]) EXCEPT
                     !.ttl = IF reply = Fail THEN Undefined ELSE TtlMark(reply.val),
                     !.ttlReply = reply,
                     !.bytes = IF size.kind = "number" THEN size ELSE Undefined,
                     !.bytesReply = size]
       IN  /\ rows' = Append(rows, row)
           /\ IF Len(rows) + 1 = Len(keys)
                THEN pc' = "done" /\ response' = Report(keys, Append(rows, row))
                ELSE pc' = "ttl" /\ response' = response
  /\ r' = NoRow
  /\ UNCHANGED <<inputs, othervars, foldvars, iterations, cursor, keys, received, returned, failed>>

\* mutant of DrupalTtl: a failing TTL of the first key is re-issued once
DrupalTtlRetry ==
  /\ handler = "drupal" /\ pc = "ttl"
  /\ issued' = Issue("ttl")
  /\ \E reply \in TtlReplies :
       LET row == parseKey(keys[Len(rows) + 1])
           again == reply = Fail /\ issued.ttl = 0
       IN  /\ r' = IF again THEN r
                   ELSE [row EXCEPT !.ttl = IF reply = Fail THEN Undefined
                                            ELSE TtlMark(reply.val),
                                    !.ttlReply = reply]
           /\ pc' = IF again THEN "ttl" ELSE "mem"
  /\ UNCHANGED <<inputs, othervars, foldvars, iterations, cursor, keys, rows, response, received, returned,
                 failed>>

\* const r = parseKey(key); try { ttl = await redis.ttl(key); ... } catch {}
DrupalTtl ==
  /\ handler = "drupal" /\ pc = "ttl"
  /\ issued' = Issue("ttl")
  /\ \E reply \in TtlReplies :
       LET row == parseKey(keys[Len(rows) + 1])
       IN  r' = [row EXCEPT !.ttl = IF reply = Fail THEN Undefined ELSE TtlMark(reply.val),
                            !.ttlReply = reply]
  /\ pc' = "mem"
  /\ UNCHANGED <<inputs, othervars, foldvars, iterations, cursor, keys, rows, response, received, returned,
                 failed>>

\* mutant of DrupalMem: a failing MEMORY USAGE reaches the handler's catch
DrupalMemThrows ==
  /\ handler = "drupal" /\ pc = "mem"
  /\ issued' = Issue("memory")
  /\ \E reply \in MemReplies :
       LET row == [r EXCEPT !.bytes = IF reply.kind = "number" THEN reply ELSE Undefined,
                            !.bytesReply = reply]
       IN  IF reply = Fail
             THEN rows' = rows /\ pc' = "done" /\ response' = ErrorResponse
             ELSE /\ rows' = Append(rows, row)
                  /\ IF Len(rows) + 1 = Len(keys)
                       THEN pc' = "done" /\ response' = Report(keys, Append(rows, row))
                       ELSE pc' = "ttl" /\ response' = response
  /\ r' = NoRow
  /\ UNCHANGED <<inputs, othervars, foldvars, iterations, cursor, keys, received, returned, failed>>

\* try { bytes = await redis.call("MEMORY", "USAGE", key); ... } catch {}
\* rows.push(r); after the last key: aggregation and the response
DrupalMem ==
  /\ handler = "drupal" /\ pc = "mem"
  /\ issued' = Issue("memory")
  /\ \E reply \in MemReplies :
       LET row == [r EXCEPT !.bytes = IF reply.kind = "number" THEN reply ELSE Undefined,
                            !.bytesReply = reply]
       IN  /\ rows' = Append(rows, row)
           /\ IF Len(rows) + 1 = Len(keys)
                THEN pc' = "done" /\ response' = Report(keys, Append(rows, row))
                ELSE pc' = "ttl" /\ response' = response
  /\ r' = NoRow
  /\ UNCHANGED <<inputs, othervars, foldvars, iterations, cursor, keys, received, returned, failed>>

\* the default configuration and an absent query, for the handlers that
\* do not read them
DefaultInputs(except) ==
  /\ "other" \in except \/ NoOther
  /\ "SCAN_LIMIT" \in except \/ SCAN_LIMIT = 3000
  /\ "TOP_LIMIT" \in except \/ TOP_LIMIT = 25
  /\ "query" \in except \/ (cid = Undef /\ bin = Undef /\ limit = DefaultLimit)
  /\ "TOP_KEYS" \in except \/ (sampleCount = 2000 /\ topLimit = 25)

InitDrupal ==
  /\ handler = "drupal"
  /\ SCAN_LIMIT \in 0..MaxCap
  /\ DefaultInputs({"SCAN_LIMIT"})
  /\ InitCommon

\* ------------------------------------------------- GET /api/search-cid
\* the `limit` query parameter: absent, or a decimal numeral (a non-empty
\* string, truthy even when it reads "0")
LimitParams == {Undefined} \cup { Num(n) : n \in 0..MaxLimit }

\* Number(searchParams.get("limit") || 100)
LimitOf(param) == IF param.kind = "number" THEN param.val ELSE DefaultLimit

\* mutant of MissingCid: only an absent cid is rejected (cid === null)
MissingCidNullOnly(qcid) == qcid = Undef

\* if (!cid)
MissingCid(qcid) == ~Truthy(qcid)

\* mutant of StopScan: the round-trip test is off by one
StopScanLate(its, kept, lim) == its > maxIterations \/ kept >= lim

\* if (iterations >= maxIterations || keys.length >= limit)
StopScan(its, kept, lim) == its >= maxIterations \/ kept >= lim

\* mutant of KeepKey: the cid is matched as a prefix of the third part, as
\* the store's glob does
KeepKeyPrefixCid(key, qcid, qbin) ==
  /\ StartsWith(key, PREFIX \o <<":">>)
  /\ LET parts == Split(key, ":")
     IN  /\ Len(parts) >= 3
         /\ StartsWith(parts[3], qcid)
         /\ (~Truthy(qbin) \/ parts[2] = qbin)

\* the per-candidate test of the scan loop: prefix, at least 3 parts, the
\* third part cut at the first "[" equal to the query cid, and the bin
KeepKey(key, qcid, qbin) ==
  /\ StartsWith(key, PREFIX \o <<":">>)
  /\ LET parts == Split(key, ":")
     IN  /\ Len(parts) >= 3
         /\ Split(parts[3], "[")[1] = qcid
         /\ (~Truthy(qbin) \/ parts[2] = qbin)

\* for (const key of batch) { ...; keys.push(key); if (keys.length >= limit) { cursor = "0"; break; } }
RECURSIVE PushKept(_, _, _, _, _)
PushKept(ks, batch, qcid, qbin, lim) ==
  IF batch = <<>> THEN [keys |-> ks, hit |-> FALSE]
  ELSE IF KeepKey(Head(batch), qcid, qbin)
    THEN LET pushed == Append(ks, Head(batch))
         IN  IF Len(pushed) >= lim THEN [keys |-> pushed, hit |-> TRUE]
             ELSE PushKept(pushed, Tail(batch), qcid, qbin, lim)
    ELSE PushKept(ks, Tail(batch), qcid, qbin, lim)

\* `${PREFIX}:${bin}:${cid}*` or `${PREFIX}:*:${cid}*`
Pattern(qcid, qbin) ==
  IF Truthy(qbin) THEN PREFIX \o <<":">> \o qbin \o <<":">> \o qcid \o <<"*">>
  ELSE PREFIX \o <<":", "*", ":">> \o qcid \o <<"*">>

\* the state of one `keys.map(async (key) => ...)` task before its first
\* reply; `at` is the command whose reply it awaits
NewTask(key, qcid) ==
  [key |-> key,
   bin |-> BinOf(key),
   cid |-> qcid,
   ttl |-> PERSIST,
   type |-> Str("unknown"),
   size |-> Undefined,
   at |-> "ttl",
   \* history: what the store replied to TTL, TYPE and MEMORY USAGE
   ttlReply |-> Undefined,
   typeReply |-> Undefined,
   sizeReply |-> Undefined]

\* the object a finished task returns
ResultOf(task) ==
  [key |-> task.key, bin |-> task.bin, cid |-> task.cid,
   ttl |-> task.ttl, type |-> task.type, size |-> task.size]

\* the ok:true body of GET /api/search-cid
SearchResponse(qcid, qbin, tasks) ==
  [ok |-> TRUE,
   status |-> 200,
   cid |-> qcid,
   bin |-> IF Truthy(qbin) THEN qbin ELSE <<"all">>,
   count |-> Len(tasks),
   keys |-> [ i \in 1..Len(tasks) |-> ResultOf(tasks[i]) ],
   pattern |-> Pattern(qcid, qbin)]

TypeReplies == {Fail, Str("string")}

\* replies of TTL explored for the concurrent tasks of the CID search
SearchTtlReplies == {Fail, Num(-1), Num(5)}

\* if (!cid) return 400; getRedis(); redis.connect() is called
SearchStart ==
  /\ handler = "search" /\ pc = "start"
  /\ IF MissingCid(cid)
       THEN pc' = "done" /\ response' = MissingCidResponse /\ issued' = issued
       ELSE pc' = "connect" /\ response' = response /\ issued' = Issue("connect")
  /\ UNCHANGED <<inputs, othervars, foldvars, iterations, cursor, keys, r, rows, received, returned, failed>>

\* await redis.connect().catch(() => {}) settles either way; await redis.ping()
SearchPing ==
  /\ handler = "search" /\ pc = "connect"
  /\ issued' = Issue("ping")
  /\ \E ok \in BOOLEAN :
       IF ok THEN pc' = "scan" /\ response' = response /\ failed' = failed
       ELSE pc' = "done" /\ response' = ErrorResponse /\ failed' = failed \cup {"ping"}
  /\ UNCHANGED <<inputs, othervars, foldvars, iterations, cursor, keys, r, rows, received, returned>>

\* one round trip of the do/while loop; a throwing redis.scan reaches the
\* handler's catch.  When the loop ends, keys.map starts every task, each
\* of which calls redis.ttl at once; Promise.all of no task resolves at once.
SearchScan ==
  /\ handler = "search" /\ pc = "scan"
  /\ \E reply \in ScanReplies :
       /\ returned + Len(reply.batch) <= MaxKeys
       /\ issued.scan >= MaxScanCalls => (reply.ok /\ reply.next # "0" /\ reply.batch = <<>>)
       /\ returned' = returned + Len(reply.batch)
       /\ failed' = IF reply.ok THEN failed ELSE failed \cup {"scan"}
       /\ IF ~reply.ok
            THEN /\ pc' = "done" /\ response' = ErrorResponse
                 /\ issued' = Issue("scan")
                 /\ UNCHANGED <<iterations, cursor, keys, rows>>
            ELSE LET res == PushKept(keys, reply.batch, cid, bin, limit)
                     its == iterations + 1
                     stop == StopScan(its, Len(res.keys), limit)
                     next == IF res.hit \/ stop THEN "0" ELSE reply.next
                     tasks == [ i \in 1..Len(res.keys) |-> NewTask(res.keys[i], cid) ]
                 IN  /\ keys' = res.keys
                     /\ issued' = [issued EXCEPT !["scan"] = @ + 1,
                                                 !["ttl"] = IF next = "0" THEN Len(res.keys) ELSE @]
                     /\ iterations' = its
                     /\ cursor' = next
                     /\ IF next # "0"
                          THEN pc' = "scan" /\ rows' = rows /\ response' = response
                          ELSE IF res.keys = <<>>
                            THEN /\ pc' = "done" /\ rows' = rows
                                 /\ response' = SearchResponse(cid, bin, <<>>)
                            ELSE /\ pc' = "enrich" /\ rows' = tasks
                                 /\ response' = response
  /\ UNCHANGED <<inputs, othervars, foldvars, r, received>>

\* the task of key i receives the reply it awaits and calls the next
\* command; the last task to finish resolves Promise.all and the response
\* is sent
TaskStep(task, reply) ==
  CASE task.at = "ttl" ->
         [task EXCEPT !.ttl = IF reply = Fail THEN @
                              ELSE IF reply.val = -1 THEN PERSIST ELSE Num(reply.val),
                      !.ttlReply = reply,
                      !.at = "type"]
    [] task.at = "type" ->
         [task EXCEPT !.type = IF reply = Fail THEN @ ELSE reply,
                      !.typeReply = reply,
                      !.at = "size"]
    [] task.at = "size" ->
         [task EXCEPT !.size = IF reply = Fail THEN @ ELSE reply,
                      !.sizeReply = reply,
                      !.at = "done"]

RepliesAt(at) ==
  CASE at = "ttl" -> SearchTtlReplies
    [] at = "type" -> TypeReplies
    [] at = "size" -> MemReplies

\* the store commands issued and not yet answered: one per unfinished task
\* of Promise.all(keys.map(async (key) => ...))
Outstanding ==
  IF handler = "search" /\ pc = "enrich"
    THEN Cardinality({ i \in 1..Len(rows) : rows[i].at # "done" })
    ELSE 0

SearchEnrich ==
  /\ handler = "search" /\ pc = "enrich"
  /\ \E i \in 1..Len(rows) :
       /\ rows[i].at # "done"
       /\ \E reply \in RepliesAt(rows[i].at) :
            LET task == TaskStep(rows[i], reply)
                tasks == [rows EXCEPT ![i] = task]
            IN  /\ rows' = tasks
                /\ issued' = IF task.at = "type" THEN Issue("type")
                             ELSE IF task.at = "size" THEN Issue("memory")
                             ELSE issued
                /\ IF \A j \in 1..Len(tasks) : tasks[j].at = "done"
                     THEN pc' = "done" /\ response' = SearchResponse(cid, bin, tasks)
                     ELSE pc' = "enrich" /\ response' = response
  /\ UNCHANGED <<inputs, othervars, foldvars, iterations, cursor, keys, r, received, returned, failed>>

\* the query: cid absent, empty or "abc"; bin absent or "render"
CidParams == {Undef, <<>>, <<"abc">>}
BinParams == {Undef, <<"render">>}

InitSearch ==
  /\ handler = "search"
  /\ cid \in CidParams
  /\ bin \in BinParams
  /\ \E param \in LimitParams : limit = LimitOf(param)
  /\ DefaultInputs({"query"})
  /\ InitCommon

\* ------------------------------------------------------------ getTopKeys
\* rows.sort((a, b) => (b.size ?? 0) - (a.size ?? 0))
SizeOrZero(row) == IF row.size.kind = "number" THEN row.size.val ELSE 0

SortBySize(rs) == SortDesc(rs, [ i \in 1..Len(rs) |-> SizeOrZero(rs[i]) ])

\* const sliced = sampled.slice(0, sampleCount)
sliced == Slice(keys, sampleCount)

\* what getTopKeys returns, as the topKeys field of the metrics response
TopKeysResult(rs) ==
  [ok |-> TRUE, status |-> 200, topKeys |-> Slice(SortBySize(rs), topLimit)]

\* one redis.scan round trip of the sampling loop; a throwing call ends the
\* loop with what was sampled; with nothing sampled the function returns
TopScan ==
  /\ handler = "topkeys" /\ pc = "start"
  /\ issued' = Issue("scan")
  /\ \E reply \in ScanReplies :
       /\ (reply.ok /\ issued.scan + 1 >= MaxScanCalls) => reply.next = "0"
       /\ returned + Len(reply.batch) <= MaxKeys
       /\ LET sampled == IF reply.ok THEN keys \o reply.batch ELSE keys
              more == reply.ok /\ reply.next # "0" /\ Len(sampled) < sampleCount
          IN  /\ keys' = sampled
              /\ cursor' = IF reply.ok THEN reply.next ELSE cursor
              /\ returned' = returned + Len(reply.batch)
              /\ failed' = IF reply.ok THEN failed ELSE failed \cup {"scan"}
              /\ IF more THEN pc' = "start" /\ response' = response
                 ELSE IF Slice(sampled, sampleCount) = <<>>
                   THEN pc' = "done" /\ response' = TopKeysResult(<<>>)
                   ELSE pc' = "ttl" /\ response' = response
  /\ UNCHANGED <<inputs, othervars, foldvars, iterations, r, rows, received>>

\* let ttl = -2; try { ttl = await redis.ttl(key); } catch {}
TopTtl ==
  /\ handler = "topkeys" /\ pc = "ttl"
  /\ issued' = Issue("ttl")
  /\ \E reply \in TtlReplies :
       r' = [key |-> sliced[Len(rows) + 1],
             ttl |-> IF reply = Fail THEN Num(-2) ELSE reply,
             size |-> Undefined,
             ttlReply |-> reply]
  /\ pc' = "mem"
  /\ UNCHANGED <<inputs, othervars, foldvars, iterations, cursor, keys, rows, response, received, returned,
                 failed>>

\* try { size = await redis.call("MEMORY", "USAGE", key); } catch {}
\* rows.push({ key, ttl: ttl === -1 ? "PERSIST" : ttl, size }); after the
\* last key: sort, slice and return
TopMem ==
  /\ handler = "topkeys" /\ pc = "mem"
  /\ issued' = Issue("memory")
  /\ \E reply \in MemReplies :
       LET row == [r EXCEPT !.ttl = TtlMark(r.ttl.val),
                            !.size = IF reply = Fail THEN Undefined ELSE reply]
       IN  /\ rows' = Append(rows, row)
           /\ IF Len(rows) + 1 = Len(sliced)
                THEN pc' = "done" /\ response' = TopKeysResult(Append(rows, row))
                ELSE pc' = "ttl" /\ response' = response
  /\ r' = NoRow
  /\ UNCHANGED <<inputs, othervars, foldvars, iterations, cursor, keys, received, returned, failed>>

InitTopKeys ==
  /\ handler = "topkeys"
  /\ sampleCount \in {1, MaxSample}
  /\ topLimit \in {1, 25}
  /\ DefaultInputs({"TOP_KEYS"})
  /\ InitCommon

Init == InitDrupal \/ InitSearch \/ InitTopKeys

Next ==
  \/ DrupalPing
  \/ DrupalScan
  \/ DrupalTtl
  \/ DrupalMem
  \/ SearchStart
  \/ SearchPing
  \/ SearchScan
  \/ SearchEnrich
  \/ TopScan
  \/ TopTtl
  \/ TopMem

\* every handler
Spec == Init /\ [][Next]_vars

\* one handler at a time
NextDrupal == DrupalPing \/ DrupalScan \/ DrupalTtl \/ DrupalMem

SpecDrupal == InitDrupal /\ [][NextDrupal]_vars

\* the awaited store call settles and the handler resumes
PingSettles == handler = "drupal" /\ pc = "start" /\ issued' = Issue("ping")
ScanSettles == handler = "drupal" /\ pc = "scan" /\ issued' = Issue("scan")
TtlSettles == handler = "drupal" /\ pc = "ttl" /\ issued' = Issue("ttl")
MemSettles == handler = "drupal" /\ pc = "mem" /\ issued' = Issue("memory")

\* every store call returns: none of the awaits of the request hangs
SpecDrupalLive ==
  /\ InitDrupal /\ [][NextDrupal]_vars
  /\ WF_issued(PingSettles)
  /\ WF_issued(ScanSettles)
  /\ WF_issued(TtlSettles)
  /\ WF_issued(MemSettles)

NextSearch == SearchStart \/ SearchPing \/ SearchScan \/ SearchEnrich

SpecSearch == InitSearch /\ [][NextSearch]_vars

NextTopKeys == TopScan \/ TopTtl \/ TopMem

SpecTopKeys == InitTopKeys /\ [][NextTopKeys]_vars

\* ------------------------------------------------------ parseKey alone
\* the key `{prefix}:{bin}:{cid}[route]=R][theme]=T]`
BracketKey(prefix, b, c, R, T) ==
  prefix \o <<":">> \o b \o <<":">> \o c \o <<"[", "route", "]", "=">> \o R \o
  <<"]", "[", "theme", "]", "=">> \o T \o <<"]">>

\* the key `{prefix}:{bin}:{cid}:[route]=R:[theme]=T`
ColonKey(prefix, b, c, R, T) ==
  prefix \o <<":">> \o b \o <<":">> \o c \o <<":", "[", "route", "]", "=">> \o R \o
  <<":", "[", "theme", "]", "=">> \o T

\* the components the decoded keys are built from
DecodePrefixes == {<<"p">>, <<"pantheon-redis-json">>}
DecodeBins == {<<"dynamic_page_cache">>, <<"render">>, <<"page">>}
DecodeCids == {<<"abc">>, <<"node", ".", "1">>}
DecodeRoutes == {<<"R">>, <<"entity", ".", "node", ".", "canonical">>, <<>>}
DecodeThemes == {<<"T">>, <<"olivero">>, <<>>}

DecodeKeys ==
  { BracketKey(x[1], x[2], x[3], x[4], x[5]) :
      x \in DecodePrefixes \X DecodeBins \X DecodeCids \X DecodeRoutes \X DecodeThemes }
  \cup
  { ColonKey(x[1], x[2], x[3], x[4], x[5]) :
      x \in DecodePrefixes \X DecodeBins \X DecodeCids \X DecodeRoutes \X DecodeThemes }

\* the state around a pure function: no store command, no response
NoStore ==
  /\ cursor = "0"
  /\ response = NoResponse
  /\ issued = [c \in Commands |-> 0]
  /\ received = <<>>
  /\ returned = 0
  /\ failed = {}
  /\ iterations = 0

\* no row aggregated yet
NoFold ==
  /\ acc = EmptyAcc
  /\ folded = 0
  /\ run = 1
  /\ first = NoResponse

InitDecode ==
  /\ handler = "decode"
  /\ pc = "start"
  /\ \E key \in DecodeKeys : keys = <<key>>
  /\ r = NoRow
  /\ rows = <<>>
  /\ DefaultInputs({})
  /\ NoStore
  /\ NoFold

\* const r = parseKey(key)
Decode ==
  /\ handler = "decode" /\ pc = "start"
  /\ r' = parseKey(keys[1])
  /\ pc' = "done"
  /\ UNCHANGED <<inputs, othervars, foldvars, iterations, cursor, keys, rows, response, issued, received,
                 returned, failed>>

SpecDecode == InitDecode /\ [][Decode]_vars

\* ------------------------------------- the key filter of CID search alone
\* `{PREFIX}:{bin}:{cid}` followed by `rest`
CidKey(b, c, rest) == PREFIX \o <<":">> \o b \o <<":">> \o c \o rest

\* the components the filtered keys are built from: a cid of one segment,
\* cids that hold ":" themselves, and a key with or without context
FilterBins == {<<"render">>, <<"entity">>}
FilterCids == {<<"abc">>, <<"abc", ":", "def">>, <<"entity_view", ":", "node", ":", "1">>}
FilterRests == {<<>>, <<"[", "x", "]", "=", "1", "]">>}

FilterKeys ==
  { CidKey(x[1], x[2], x[3]) : x \in FilterBins \X FilterCids \X FilterRests }

\* values of `limit` for the filter: one key, the default
FilterLimits == {1, DefaultLimit}

InitFilter ==
  /\ handler = "filter"
  /\ pc = "start"
  /\ cid \in FilterCids
  /\ bin \in {Undef} \cup FilterBins
  /\ limit \in FilterLimits
  /\ received \in SeqsUpTo(FilterKeys, MaxBatch)
  /\ keys = <<>>
  /\ r = NoRow
  /\ rows = <<>>
  /\ cursor = "0"
  /\ response = NoResponse
  /\ issued = [c \in Commands |-> 0]
  /\ returned = 0
  /\ failed = {}
  /\ iterations = 0
  /\ DefaultInputs({"query"})
  /\ NoFold

\* the `for (const key of batch)` loop of the search over one batch
FilterBatch ==
  /\ handler = "filter" /\ pc = "start"
  /\ keys' = PushKept(keys, received, cid, bin, limit).keys
  /\ pc' = "done"
  /\ UNCHANGED <<inputs, othervars, foldvars, iterations, cursor, r, rows, response, issued,
                 received, returned, failed>>

SpecFilter == InitFilter /\ [][FilterBatch]_vars

\* ------------------------------------------- the aggregation loop alone
\* the row the per-key loop pushes for `key` given the replies of TTL and
\* MEMORY USAGE
MakeRow(key, ttlReply, memReply) ==
  [parseKey(key) EXCEPT
     !.ttl = IF ttlReply = Fail THEN Undefined ELSE TtlMark(ttlReply.val),
     !.ttlReply = ttlReply,
     !.bytes = IF memReply.kind = "number" THEN memReply ELSE Undefined,
     !.bytesReply = memReply]

\* the part `:[label]=value` of a key
Ctx(label, value) == <<":", "[">> \o label \o <<"]", "=">> \o value

Anonymous == <<"user", ".", "roles", ":", "anonymous">>
Authenticated == <<"user", ".", "roles", ":", "authenticated">>
LangContent == <<"languages", ":", "language_content">>

DpcKey == <<"p", ":", "dynamic_page_cache", ":", "a">>
RenderKey == <<"p", ":", "render", ":", "a">>

\* the rows aggregated: route R without url and theme, with url and theme,
\* with url.path and another theme, route R in another bin, a second
\* route, an empty route, a key without context, flags other than "true"
RowBare == MakeRow(DpcKey \o Ctx(<<"route">>, <<"R">>), Fail, Num(1))
RowFull ==
  MakeRow(DpcKey \o Ctx(<<"route">>, <<"R">>) \o Ctx(<<"theme">>, <<"T">>) \o
          Ctx(<<"url">>, <<"U">>) \o Ctx(Anonymous, <<"true">>) \o
          Ctx(LangContent, <<"en">>), Num(5), Num(3))
RowPath ==
  MakeRow(DpcKey \o Ctx(<<"route">>, <<"R">>) \o Ctx(<<"theme">>, <<"T2">>) \o
          Ctx(<<"url", ".", "path">>, <<"P">>) \o Ctx(Authenticated, <<"true">>),
          Num(0), Fail)
RowRender ==
  MakeRow(RenderKey \o Ctx(<<"route">>, <<"R">>) \o Ctx(<<"theme">>, <<"T">>) \o
          Ctx(Anonymous, <<"true">>), Num(-1), Num(3))
RowOther ==
  MakeRow(DpcKey \o Ctx(<<"route">>, <<"S">>) \o Ctx(<<"theme">>, <<"T2">>) \o
          Ctx(Anonymous, <<"1">>) \o Ctx(LangContent, <<"fr">>), Num(8), Num(3))
RowEmpty ==
  MakeRow(DpcKey \o Ctx(<<"route">>, <<>>) \o Ctx(<<"theme">>, <<"T">>) \o
          Ctx(Authenticated, <<"TRUE">>), Num(-2), Num(1))
RowPlain == MakeRow(<<"p", ":", "render", ":", "b">>, Num(8), Num(1))
RowBoth ==
  MakeRow(DpcKey \o Ctx(<<"route">>, <<"S">>) \o Ctx(<<"url">>, <<>>) \o
          Ctx(<<"url", ".", "path">>, <<"P">>) \o Ctx(Anonymous, <<"true">>) \o
          Ctx(Authenticated, <<"true">>), Num(5), Num(1))
\* a key of a bin named like a member of Object.prototype, and a
\* dynamic_page_cache key whose route, theme and content language are
RowInherited == MakeRow(<<"p", ":", "constructor", ":", "a">>, Num(5), Num(3))
RowInheritedRoute ==
  MakeRow(DpcKey \o Ctx(<<"route">>, <<"constructor">>) \o
          Ctx(<<"theme">>, <<"constructor">>) \o
          Ctx(LangContent, <<"constructor">>), Num(5), Num(3))

FoldInputs ==
  {RowBare, RowFull, RowPath, RowRender, RowOther, RowEmpty, RowPlain, RowBoth,
   RowInherited, RowInheritedRoute}

\* number of rows aggregated at most
MaxRows == MaxCap + 1

\* values of DRUPAL_TOP_LIMIT explored: none, one, the default
TopLimits == {0, 1, 25}

InitFold ==
  /\ handler = "fold"
  /\ pc = "fold"
  /\ rows \in SeqsUpTo(FoldInputs, MaxRows)
  /\ keys = [ i \in 1..Len(rows) |-> rows[i].key ]
  /\ r = NoRow
  /\ TOP_LIMIT \in TopLimits
  /\ DefaultInputs({"TOP_LIMIT"})
  /\ NoStore
  /\ NoFold

\* one iteration of `for (const r of rows) { ... }`
FoldRow ==
  /\ handler = "fold" /\ pc = "fold"
  /\ folded < Len(rows)
  /\ acc' = FoldStep(acc, rows[folded + 1])
  /\ folded' = folded + 1
  /\ UNCHANGED <<inputs, othervars, run, first, pc, iterations, cursor, keys, r, rows, response,
                 issued, received, returned, failed>>

\* after the loop: sort, truncate and respond
FoldFinalise ==
  /\ handler = "fold" /\ pc = "fold"
  /\ folded = Len(rows)
  /\ response' = Finalise(acc, Len(keys))
  /\ pc' = "done"
  /\ UNCHANGED <<inputs, othervars, foldvars, iterations, cursor, keys, r, rows, issued, received,
                 returned, failed>>

\* mutant of FoldAgain: the accumulators outlive the request
FoldAgainKeepAcc ==
  /\ handler = "fold" /\ pc = "done" /\ run = 1
  /\ first' = response
  /\ run' = 2
  /\ acc' = acc
  /\ folded' = 0
  /\ response' = NoResponse
  /\ pc' = "fold"
  /\ UNCHANGED <<inputs, othervars, iterations, cursor, keys, r, rows, issued, received, returned,
                 failed>>

\* a second request over the same keys, TTLs and sizes: `bins`, `routes`,
\* `themes`, `langs` and the counters are locals of GET, created anew
FoldAgain ==
  /\ handler = "fold" /\ pc = "done" /\ run = 1
  /\ first' = response
  /\ run' = 2
  /\ acc' = EmptyAcc
  /\ folded' = 0
  /\ response' = NoResponse
  /\ pc' = "fold"
  /\ UNCHANGED <<inputs, othervars, iterations, cursor, keys, r, rows, issued, received, returned,
                 failed>>

NextFold == FoldRow \/ FoldFinalise \/ FoldAgain

SpecFold == InitFold /\ [][NextFold]_vars

\* ------------------------------------------------------------ parseInfo
\* a string value of an INFO mapping
Text(s) == [kind |-> "text", val |-> s]

\* Number(v) that is not finite
NaN == [kind |-> "NaN", val |-> 0]

\* the symbols String.prototype.trim and Number() strip
Whitespace == {" ", "\r", "\t"}

\* String.prototype.trim
RECURSIVE Trim(_)
Trim(s) ==
  IF s = <<>> THEN s
  ELSE IF Head(s) \in Whitespace THEN Trim(Tail(s))
  ELSE IF s[Len(s)] \in Whitespace THEN Trim(Take(s, Len(s) - 1))
  ELSE s

\* String.prototype.replace(c, ""): the first occurrence only
RemoveFirst(s, c) ==
  IF \A i \in 1..Len(s) : s[i] # c THEN s
  ELSE LET i == CHOOSE i \in 1..Len(s) : s[i] = c /\ \A j \in 1..(i - 1) : s[j] # c
       IN  Take(s, i - 1) \o Drop(s, i)

\* the decimal numerals among the symbols, each of three digits
Numerals == {"100"}
NumeralValue(w) == CASE w = "100" -> 100

\* the number a run of numerals reads as
RECURSIVE DigitsValue(_)
DigitsValue(t) ==
  IF t = <<>> THEN 0
  ELSE DigitsValue(Take(t, Len(t) - 1)) * 1000 + NumeralValue(t[Len(t)])

\* Number(v) of a string: surrounding whitespace is ignored, the empty
\* string reads as 0, anything that is not a numeral as NaN
NumberOf(v) ==
  LET t == Trim(v)
  IN  IF \A i \in 1..Len(t) : t[i] \in Numerals THEN Num(DigitsValue(t)) ELSE NaN

\* obj[name] = value on a Record kept as a sequence of entries
SetEntry(entries, name, value) ==
  IF IndexOf(entries, name) = 0
    THEN Append(entries, [name |-> name, value |-> value])
    ELSE [entries EXCEPT ![IndexOf(entries, name)].value = value]

\* mutant of KeyValue: a line without colon is stored with an empty value
KeyValueNoColon(st, line) ==
  LET parts == Split(line, ":")
      k == parts[1]
      v == IF Len(parts) >= 2 THEN parts[2] ELSE <<>>
  IN  IF k = <<>> THEN st
      ELSE LET num == NumberOf(v)
               value == IF num.kind = "number" THEN num ELSE Text(Trim(v))
               i == IndexOf(st.sections, st.current)
           IN  [st EXCEPT !.sections[i].value = SetEntry(@, k, value)]

\* const [k, v] = line.split(":"); if (!k || v === undefined) continue;
\* const num = Number(v);
\* sections[current][k] = Number.isFinite(num) ? num : v.trim();
KeyValue(st, line) ==
  LET parts == Split(line, ":")
      k == parts[1]
  IN  IF k = <<>> \/ Len(parts) < 2 THEN st
      ELSE LET v == parts[2]
               num == NumberOf(v)
               value == IF num.kind = "number" THEN num ELSE Text(Trim(v))
               i == IndexOf(st.sections, st.current)
           IN  [st EXCEPT !.sections[i].value = SetEntry(@, k, value)]

\* one iteration of the loop of parseInfo of the metrics handler
MetricsLine(st, line) ==
  IF line = <<>> \/ Head(line) = "#"
    THEN LET sec == Trim(RemoveFirst(line, "#"))
         IN  IF sec # <<>>
               THEN [current |-> sec, sections |-> SetEntry(st.sections, sec, <<>>)]
               ELSE st
    ELSE KeyValue(st, line)

\* one iteration of the loop of parseInfo of the config-summary handler
SummaryLine(st, line) ==
  IF line = <<>> THEN st
  ELSE IF Head(line) = "#"
    THEN LET sec == Trim(RemoveFirst(line, "#"))
         IN  [current |-> sec, sections |-> SetEntry(st.sections, sec, <<>>)]
    ELSE KeyValue(st, line)

\* let current = "default"; sections[current] = {};
InfoStart ==
  [current |-> <<"default">>,
   sections |-> <<[name |-> <<"default">>, value |-> <<>>]>>]

RECURSIVE MetricsLines(_, _)
MetricsLines(st, lines) ==
  IF lines = <<>> THEN st ELSE MetricsLines(MetricsLine(st, Head(lines)), Tail(lines))

RECURSIVE SummaryLines(_, _)
SummaryLines(st, lines) ==
  IF lines = <<>> THEN st ELSE SummaryLines(SummaryLine(st, Head(lines)), Tail(lines))

\* parseInfo(infoText) of the metrics handler
parseInfo(text) == MetricsLines(InfoStart, Split(text, "\n")).sections

\* parseInfo(infoText) of the config-summary handler
parseInfoSummary(text) == SummaryLines(InfoStart, Split(text, "\n")).sections

\* the lines the INFO texts are made of
LineMemory == <<"#", " ", "Memory", "\r">>
LineUsedMemory == <<"used_memory", ":", "100", "\r">>
LineTwoColons == <<"k", ":", "v1", ":", "v2">>
LineNumberColon == <<"k", ":", "100", ":", "x">>
LineHash == <<"#">>
LineBlank == <<>>
LineNoColon == <<"nocolon">>
LinePadded == <<"k", ":", " ", "abc", " ">>

InfoLines ==
  {LineMemory, LineUsedMemory, LineTwoColons, LineNumberColon, LineHash, LineBlank,
   LineNoColon, LinePadded}

\* number of lines of an INFO text at most
MaxLines == MaxCap + 1

\* lines.join("\n")
RECURSIVE Join(_)
Join(lines) ==
  IF lines = <<>> THEN <<>>
  ELSE IF Len(lines) = 1 THEN lines[1]
  ELSE lines[1] \o <<"\n">> \o Join(Tail(lines))

InitInfo ==
  /\ handler = "info"
  /\ pc = "start"
  /\ \E lines \in SeqsUpTo(InfoLines, MaxLines) : infoText = Join(lines)
  /\ info = NoInfo
  /\ NoConfig
  /\ NoPair
  /\ keys = <<>>
  /\ r = NoRow
  /\ rows = <<>>
  /\ DefaultInputs({"other"})
  /\ NoStore
  /\ NoFold

\* const info = parseInfo(infoText) in the metrics handler
MetricsParse ==
  /\ handler = "info"
  /\ "metrics" \notin info.parsed
  /\ info' = [info EXCEPT !.metrics = parseInfo(infoText), !.parsed = @ \cup {"metrics"}]
  /\ pc' = IF "summary" \in info.parsed THEN "done" ELSE pc
  /\ UNCHANGED <<inputs, foldvars, configvars, pairvars, infoText, iterations, cursor, keys,
                 r, rows, response, issued, received, returned, failed>>

\* const info = parseInfo(infoText) in the config-summary handler
SummaryParse ==
  /\ handler = "info"
  /\ "summary" \notin info.parsed
  /\ info' = [info EXCEPT !.summary = parseInfoSummary(infoText),
                          !.parsed = @ \cup {"summary"}]
  /\ pc' = IF "metrics" \in info.parsed THEN "done" ELSE pc
  /\ UNCHANGED <<inputs, foldvars, configvars, pairvars, infoText, iterations, cursor, keys,
                 r, rows, response, issued, received, returned, failed>>

NextInfo == MetricsParse \/ SummaryParse

SpecInfo == InitInfo /\ [][NextInfo]_vars

\* ------------------------------------------------ the configuration form
\* the masked value GET /api/config/get shows for a set password
Masked == <<"***">>

\* values the configuration file holds: no line, or a value
StoredValues == {<<>>, <<"v">>}

\* values a field of the form takes: empty, blank, a value, the mask
FormValues == {<<>>, <<" ">>, <<"w">>, Masked}

\* GET /api/config/get: process.env.X || '', the password masked if set
ConfigGetBody ==
  [f \in ConfigFields |->
     IF f = "REDIS_PASSWORD" THEN (IF Truthy(env[f]) THEN Masked ELSE <<>>)
     ELSE env[f]]

\* if (config.X && config.X.trim()) envLines.push(`X=${config.X.trim()}`);
\* the password only if it is not the masked value; a variable without
\* line reads as empty
EnvLines(body) ==
  [f \in ConfigFields |->
     IF /\ Truthy(body[f]) /\ Trim(body[f]) # <<>>
        /\ (f = "REDIS_PASSWORD" => body[f] # Masked)
       THEN Trim(body[f]) ELSE <<>>]

\* the bodies of POST /api/config/set
ConfigInvalid ==
  [ok |-> FALSE, status |-> 400,
   error |-> "Either REDIS_URL or REDIS_HOST must be provided"]
ConfigWriteFailed == [ok |-> FALSE, status |-> 500, error |-> "Failed to write config file"]
ConfigSaved == [ok |-> TRUE, status |-> 200, message |-> "Configuration saved"]

InitConfig ==
  /\ handler = "config"
  /\ pc = "start"
  /\ env \in [ConfigFields -> StoredValues]
  /\ envFile = env
  /\ config = NoEnv
  /\ infoText = <<>> /\ info = NoInfo
  /\ NoPair
  /\ keys = <<>>
  /\ r = NoRow
  /\ rows = <<>>
  /\ DefaultInputs({"other"})
  /\ NoStore
  /\ NoFold

\* the form loads GET /api/config/get into `config`
ConfigLoad ==
  /\ handler = "config" /\ pc = "start"
  /\ config' = ConfigGetBody
  /\ pc' = "form"
  /\ UNCHANGED <<inputs, foldvars, pairvars, infoText, info, env, envFile, iterations, cursor,
                 keys, r, rows, response, issued, received, returned, failed>>

\* updateConfig(key, value)
ConfigEdit ==
  /\ handler = "config" /\ pc = "form"
  /\ \E f \in ConfigFields, value \in FormValues :
       config' = [config EXCEPT ![f] = value]
  /\ UNCHANGED <<inputs, foldvars, pairvars, infoText, info, env, envFile, pc, iterations,
                 cursor, keys, r, rows, response, issued, received, returned, failed>>

\* handleSave: POST /api/config/set with `config` as body; the handler
\* validates, builds the lines from the body alone and overwrites the file
ConfigSave ==
  /\ handler = "config" /\ pc = "form"
  /\ IF ~Truthy(config["REDIS_URL"]) /\ ~Truthy(config["REDIS_HOST"])
       THEN response' = ConfigInvalid /\ envFile' = envFile
       ELSE \E written \in BOOLEAN :
              IF written THEN response' = ConfigSaved /\ envFile' = EnvLines(config)
              ELSE response' = ConfigWriteFailed /\ envFile' = envFile
  /\ pc' = "saved"
  /\ UNCHANGED <<inputs, foldvars, pairvars, infoText, info, env, config, iterations, cursor,
                 keys, r, rows, issued, received, returned, failed>>

NextConfig == ConfigLoad \/ ConfigEdit \/ ConfigSave

SpecConfig == InitConfig /\ [][NextConfig]_vars

\* ------------------------------------- two concurrent aggregation requests
Requests == {1, 2}

\* the keys of the unchanging store, one of a bin named like a member of
\* Object.prototype
PairKeys == {KeyRender, KeyRouteTheme, <<"p", ":", "constructor", ":", "a">>}

\* the TTL and the size the store holds for a key
PairTtl(key) == IF key = KeyRender THEN Num(-1) ELSE Num(5)
PairMem(key) == Num(3)

\* number of SCAN calls a full iteration of the store takes at most
MaxPairCalls == MaxCap

\* the batches a full iteration hands out, call by call
PairStores ==
  UNION { [1..n -> SeqsUpTo(PairKeys, 1)] : n \in 1..MaxPairCalls }

\* the caps explored: one key, the default
PairLimits == {1, 3000}

\* the locals of a request before its first step; `cursor` counts the
\* batches read, 0 standing for "0"
NewRequest ==
  [pc |-> "start", cursor |-> 0, keys |-> <<>>, r |-> NoRow, rows |-> <<>>,
   response |-> NoResponse]

\* the inherited members the aggregation of `rs` writes to: the entry read
\* for such a name is an object all requests of the process reach
InheritedWritten(rs) ==
  { n \in Inherited :
      \E i \in 1..Len(rs) :
        \/ rs[i].bin = n
        \/ rs[i].theme = n
        \/ rs[i].langContent = n
        \/ (rs[i].bin = <<"dynamic_page_cache">> /\ rs[i].route = n) }

InitPair ==
  /\ handler = "pair"
  /\ pc = "start"
  /\ store \in PairStores
  /\ reqs = [i \in Requests |-> NewRequest]
  /\ shared = {}
  /\ SCAN_LIMIT \in PairLimits
  /\ infoText = <<>> /\ info = NoInfo
  /\ NoConfig
  /\ keys = <<>>
  /\ r = NoRow
  /\ rows = <<>>
  /\ DefaultInputs({"other", "SCAN_LIMIT"})
  /\ NoStore
  /\ NoFold

\* the variables a step of one of the two requests leaves alone
PairFrame ==
  UNCHANGED <<inputs, foldvars, infoText, info, configvars, store, pc, iterations, cursor, keys,
              r, rows, response, issued, received, returned, failed>>

\* await redis.ping()
PairPing(i) ==
  /\ handler = "pair" /\ reqs[i].pc = "start"
  /\ reqs' = [reqs EXCEPT ![i].pc = "scan"]
  /\ shared' = shared
  /\ PairFrame

\* one redis.scan round trip of scan(): `keys` and `cursor` are locals of
\* the call
PairScan(i) ==
  /\ handler = "pair" /\ reqs[i].pc = "scan"
  /\ LET l == reqs[i]
         batch == store[l.cursor + 1]
         res == PushBatch(l.keys, batch, SCAN_LIMIT)
         next == IF res.hit \/ l.cursor + 1 = Len(store) THEN 0 ELSE l.cursor + 1
     IN  reqs' = [reqs EXCEPT ![i] =
           IF next # 0 THEN [l EXCEPT !.keys = res.keys, !.cursor = next]
           ELSE IF res.keys = <<>>
             THEN [l EXCEPT !.keys = res.keys, !.cursor = 0, !.pc = "done",
                            !.response = Report(<<>>, <<>>)]
             ELSE [l EXCEPT !.keys = res.keys, !.cursor = 0, !.pc = "ttl"]]
  /\ shared' = shared
  /\ PairFrame

\* const r = parseKey(key); ttl = await redis.ttl(key)
PairTtlStep(i) ==
  /\ handler = "pair" /\ reqs[i].pc = "ttl"
  /\ LET l == reqs[i]
         key == l.keys[Len(l.rows) + 1]
     IN  reqs' = [reqs EXCEPT ![i].pc = "mem",
                              ![i].r = [parseKey(key) EXCEPT
                                          !.ttl = TtlMark(PairTtl(key).val),
                                          !.ttlReply = PairTtl(key)]]
  /\ shared' = shared
  /\ PairFrame

\* bytes = await redis.call("MEMORY", "USAGE", key); rows.push(r); after
\* the last key the aggregation, which runs without await, and the response
PairMemStep(i) ==
  /\ handler = "pair" /\ reqs[i].pc = "mem"
  /\ LET l == reqs[i]
         row == [l.r EXCEPT !.bytes = PairMem(l.r.key), !.bytesReply = PairMem(l.r.key)]
         all == Append(l.rows, row)
     IN  IF Len(all) = Len(l.keys)
           THEN /\ reqs' = [reqs EXCEPT ![i] =
                     [l EXCEPT !.rows = all, !.r = NoRow, !.pc = "done",
                               !.response = Report(l.keys, all)]]
                /\ shared' = shared \cup InheritedWritten(all)
           ELSE /\ reqs' = [reqs EXCEPT ![i] = [l EXCEPT !.rows = all, !.r = NoRow, !.pc = "ttl"]]
                /\ shared' = shared
  /\ PairFrame

NextPair ==
  \E i \in Requests : PairPing(i) \/ PairScan(i) \/ PairTtlStep(i) \/ PairMemStep(i)

SpecPair == InitPair /\ [][NextPair]_vars

\* =================================================================
\* Properties
\* =================================================================
Range(f) == { f[i] : i \in DOMAIN f }

RECURSIVE SumOver(_, _)
SumOver(S, f) ==
  IF S = {} THEN 0
  ELSE LET x == CHOOSE x \in S : TRUE IN f[x] + SumOver(S \ {x}, f)

DrupalReported == handler = "drupal" /\ pc = "done" /\ response.ok
SearchReported == handler = "search" /\ pc = "done" /\ response.ok
TopKeysReturned == handler = "topkeys" /\ pc = "done"

\* C1: for every configured DRUPAL_SCAN_LIMIT and whatever batches SCAN
\* returns, the `scanned` field of an ok:true aggregation report is at most
\* the cap.
C1_ScannedAtMostCap ==
  DrupalReported => response.scanned <= SCAN_LIMIT

\* key = PREFIX ":" b ":" qcid rest, where b holds no ":", rest is empty or
\* begins with "[" or ":", and b is the bin filter when one is given
ExactCidKey(key, qcid, qbin) ==
  /\ ":" \notin Range(qcid) /\ "[" \notin Range(qcid)
  /\ \E n \in 0..(Len(key) - Len(PREFIX) - 1) :
       LET b == SubSeq(key, Len(PREFIX) + 2, Len(PREFIX) + 1 + n)
           head == PREFIX \o <<":">> \o b \o <<":">> \o qcid
       IN  /\ ":" \notin Range(b)
           /\ StartsWith(key, head)
           /\ Len(key) > Len(head) => key[Len(head) + 1] \in {"[", ":"}
           /\ Truthy(qbin) => b = qbin

\* C2: every key of an ok:true search response starts with "{prefix}:", has
\* at least 3 colon-separated segments, has its third segment cut at the
\* first "[" equal to the query cid and, with a bin filter, its second
\* segment equal to the filter; p:render:abcdef[x]=1] is never returned for
\* cid abc.
C2_CidSearchExact ==
  SearchReported =>
    \A i \in 1..Len(response.keys) :
      /\ ExactCidKey(response.keys[i].key, cid, bin)
      /\ cid = <<"abc">> => response.keys[i].key # KeyRenderLong

\* C2 witness: a search without limit kept a key and rejected a candidate
C2_Witness ==
  /\ SearchReported /\ limit = DefaultLimit
  /\ response.count >= 1 /\ returned > response.count

\* C3: for every value of `limit`, `count` and the length of `keys` in the
\* search response are at most `limit`.
C3_CountAtMostLimit ==
  SearchReported => (response.count <= limit /\ Len(response.keys) <= limit)

\* C4: a CID search issues at most 10 SCAN calls whatever the store returns,
\* and once a SCAN call has returned with 10 calls made or at least `limit`
\* keys kept, no further SCAN call is issued.
C4_ScanRoundTripsBounded ==
  /\ [](handler = "search" => issued.scan <= 10)
  /\ [][(handler = "search" /\ issued.scan >= 1 /\ issued'.scan > issued.scan)
          => (issued.scan < 10 /\ Len(keys) < limit)]_vars

\* C4 witness: the store never returned cursor "0" and the 10th call ended
\* the scan
C4_Witness ==
  SearchReported /\ issued.scan = 10 /\ iterations = 10

\* C5: a CID search with a missing or empty cid answers ok:false with status
\* 400 (not the 500 of a connectivity failure) and issues no store command.
C5_MissingCidNoStoreAccess ==
  (handler = "search" /\ (cid = Undef \/ cid = <<>>)) =>
    /\ \A c \in Commands : issued[c] = 0
    /\ pc \in {"start", "done"}
    /\ pc = "done" => (response.ok = FALSE /\ response.status = 400
                        /\ response.status # ErrorResponse.status)

\* C5 witness: an empty cid was answered
C5_Witness ==
  handler = "search" /\ cid = <<>> /\ pc = "done" /\ response.status = 400

ReportFields == {"scanned", "bins", "topRoutes", "themes", "languages", "authVsAnon"}

\* C6: when the ping of an aggregation request fails, the response is
\* { ok: false, error } with none of the report fields, and no SCAN, TTL or
\* MEMORY USAGE command is issued.
C6_PingFailureNoPartialReport ==
  (handler = "drupal" /\ "ping" \in failed) =>
    /\ pc = "done"
    /\ response.ok = FALSE
    /\ "error" \in DOMAIN response
    /\ DOMAIN response \cap ReportFields = {}
    /\ issued.scan = 0 /\ issued.ttl = 0 /\ issued.memory = 0

\* C6 witness: the ping failed
C6_Witness ==
  handler = "drupal" /\ "ping" \in failed /\ pc = "done"

\* bytes the store reported for scanned key i (0 when the fetch failed)
ReplyBytes(i) ==
  IF rows[i].bytesReply.kind = "number" THEN rows[i].bytesReply.val ELSE 0

SumBytes(S) == SumOver(S, [ i \in S |-> ReplyBytes(i) ])

\* C7: whatever subset of the TTL and MEMORY USAGE commands fails, the
\* request ends ok:true, every scanned key is counted in its bin, and a key
\* whose size fetch failed adds 0 to every byte total (bins, routes, themes,
\* languages); stated of the request as a whole and of the aggregation of
\* its rows alone.
C7_PerKeyFailureIsolation ==
  ((handler = "drupal" /\ pc = "done" /\ "ping" \notin failed) \/
   (handler = "fold" /\ pc = "done")) =>
    LET N == Len(keys)
        InBin(b) == { i \in 1..N : BinOf(keys[i]) = b }
        WithTheme(t) == { i \in 1..N : get(keys[i], <<"theme">>) = t }
        WithRoute(t) == { i \in 1..N : BinOf(keys[i]) = <<"dynamic_page_cache">>
                                        /\ get(keys[i], <<"route">>) = t }
        WithLang(l) == { i \in 1..N :
                           LET lc == get(keys[i], <<"languages", ":", "language_content">>)
                           IN  IF l = <<"n/a">> THEN lc \in {Undef, <<>>, l} ELSE lc = l }
    IN  /\ response.ok
        /\ Len(rows) = N
        /\ \A i \in 1..N : \E j \in 1..Len(response.bins) :
             response.bins[j].name = BinOf(keys[i])
        /\ SumOver(1..Len(response.bins),
                   [ j \in 1..Len(response.bins) |-> response.bins[j].count ]) = N
        /\ \A j \in 1..Len(response.bins) :
             /\ response.bins[j].count = Cardinality(InBin(response.bins[j].name))
             /\ response.bins[j].totalBytes = SumBytes(InBin(response.bins[j].name))
        /\ \A j \in 1..Len(response.themes) :
             response.themes[j].bytes = SumBytes(WithTheme(response.themes[j].name))
        /\ \A j \in 1..Len(response.topRoutes) :
             response.topRoutes[j].bytes = SumBytes(WithRoute(response.topRoutes[j].name))
        /\ \A j \in 1..Len(response.languages) :
             response.languages[j].bytes = SumBytes(WithLang(response.languages[j].name))

\* C7 witness: of two scanned keys of one bin, one had its size fetch fail
\* and its TTL fetch fail, the other was sized
C7_Witness ==
  /\ DrupalReported /\ Len(rows) >= 2
  /\ \E i, j \in 1..Len(rows) :
       /\ rows[i].bytesReply = Fail /\ rows[i].ttlReply = Fail
       /\ rows[j].bytesReply.kind = "number"
       /\ rows[i].bin = rows[j].bin

\* C8: in CID search a failing SCAN call does not fail the request: it ends
\* ok:true with the keys kept from the batches received before the failure.
C8_SearchScanFailureRecovered ==
  (handler = "search" /\ pc = "done" /\ "scan" \in failed) =>
    /\ response.ok
    /\ Len(response.keys) = Len(keys)
    /\ \A i \in 1..Len(keys) : response.keys[i].key = keys[i]

\* the concatenation of the returned batches, cut where the cap is reached
CutAtCap(batches, limitCap) ==
  IF Len(batches) >= limitCap THEN Take(batches, limitCap) ELSE batches

\* C9: in aggregation the scanned keys are the in-order concatenation of the
\* batches the store returned, cut at the first of cap reached, cursor back
\* to "0" or a failing SCAN (after which no further SCAN is issued); a
\* failing SCAN never fails the request, which reports the keys accumulated
\* so far (0 when the first call fails).
C9_ScanBestEffort ==
  /\ [](handler = "drupal" =>
          /\ keys = CutAtCap(received, SCAN_LIMIT)
          /\ (pc = "done" /\ "ping" \notin failed) =>
               (response.ok /\ response.scanned = Len(keys))
          /\ (pc = "done" /\ "scan" \in failed /\ issued.scan = 1) =>
               response.scanned = 0)
  /\ [][(handler = "drupal" /\ issued.scan >= 1 /\ issued'.scan > issued.scan)
          => (cursor # "0" /\ "scan" \notin failed /\ Len(keys) < SCAN_LIMIT)]_vars

\* the store TTL of a row and the ttl the row shows
TtlMapped(reply, shown) ==
  /\ (reply.kind = "number" /\ reply.val = -1) => shown = PERSIST
  /\ (reply.kind = "number" /\ reply.val >= 0) => shown = Num(reply.val)

\* C10: in every aggregation row, CID search row and top-keys row a store
\* TTL of -1 shows as "PERSIST" and a non-negative store TTL shows unchanged.
C10_TtlSentinel ==
  /\ handler = "drupal" =>
       \A i \in 1..Len(rows) : TtlMapped(rows[i].ttlReply, rows[i].ttl)
  /\ SearchReported =>
       \A i \in 1..Len(response.keys) : TtlMapped(rows[i].ttlReply, response.keys[i].ttl)
  /\ TopKeysReturned =>
       \A i \in 1..Len(response.topKeys) :
         TtlMapped(response.topKeys[i].ttlReply, response.topKeys[i].ttl)

\* C10 witness: a returned list of top keys holds a key without expiry and
\* a key with TTL 0
C10_Witness ==
  /\ TopKeysReturned
  /\ \E i, j \in 1..Len(response.topKeys) :
       /\ response.topKeys[i].ttlReply = Num(-1) /\ response.topKeys[i].ttl = PERSIST
       /\ response.topKeys[j].ttlReply = Num(0) /\ response.topKeys[j].ttl = Num(0)

\* C11: in every ok:true CID search response each kept key has its row, and
\* a field whose fetch threw is absent from that row: no TTL value or
\* marker after a failed TTL, no type name after a failed TYPE, no size
\* after a failed MEMORY USAGE.
C11_SearchFailedFieldAbsent ==
  SearchReported =>
    /\ response.count = Len(keys)
    /\ \A i \in 1..Len(response.keys) :
         /\ response.keys[i].key = keys[i]
         /\ rows[i].ttlReply.kind = "fail" => response.keys[i].ttl.kind = "undefined"
         /\ rows[i].typeReply.kind = "fail" => response.keys[i].type.kind = "undefined"
         /\ rows[i].sizeReply.kind = "fail" => response.keys[i].size.kind = "undefined"

\* C12: a CID search request never has more than one store command
\* outstanding, so the fetches of one kept key are over before the first
\* fetch of the next kept key is issued.
C12_SearchNoParallelism ==
  handler = "search" => Outstanding <= 1

\* number of store commands issued so far
IssuedTotal ==
  issued.connect + issued.ping + issued.scan + issued.ttl + issued.type + issued.memory

\* C13: every step of an aggregation request issues exactly one store
\* command and has its reply (or failure) before the next step, in this
\* order: ping first, then the SCAN calls, then for each scanned key in scan
\* order its TTL followed by its MEMORY USAGE.
C13_AggregationSequential ==
  [][handler = "drupal" =>
       /\ IssuedTotal' = IssuedTotal + 1
       /\ issued'.connect = issued.connect /\ issued'.type = issued.type
       /\ issued'.ping > issued.ping => IssuedTotal = 0
       /\ issued'.scan > issued.scan =>
            issued.ping = 1 /\ issued.ttl = 0 /\ issued.memory = 0
       /\ issued'.ttl > issued.ttl =>
            /\ issued.ping = 1 /\ issued.scan >= 1
            /\ issued.memory = issued.ttl
            /\ Len(rows) = issued.ttl
            /\ issued.ttl < Len(keys)
            /\ r'.key = keys[issued.ttl + 1]
       /\ issued'.memory > issued.memory =>
            /\ issued.ttl = issued.memory + 1
            /\ r.key = keys[issued.ttl]
            /\ Len(rows') = issued'.memory
            /\ rows'[Len(rows')].key = keys[issued.ttl]
       /\ pc' = "done" /\ response'.ok =>
            issued'.ttl = Len(keys') /\ issued'.memory = Len(keys')]_vars

\* C13 witness: a report over two scanned keys fetched by two SCAN calls:
\* one ping, two SCANs, then TTL and MEMORY USAGE of each key
C13_Witness ==
  /\ DrupalReported
  /\ Len(keys) = 2
  /\ issued = [c \in Commands |->
                CASE c = "ping" -> 1
                  [] c \in {"scan", "ttl", "memory"} -> 2
                  [] OTHER -> 0]

Decoded == handler = "decode" /\ pc = "done"

\* C14: decoding `{prefix}:{bin}:{cid}[route]=R][theme]=T]` yields the
\* key's bin, route exactly R and theme exactly T, for every prefix, bin,
\* cid, R and T.
C14_DecodeBracketKey ==
  Decoded =>
    \A x \in DecodePrefixes \X DecodeBins \X DecodeCids \X DecodeRoutes \X DecodeThemes :
      keys[1] = BracketKey(x[1], x[2], x[3], x[4], x[5]) =>
        r.bin = x[2] /\ r.route = x[4] /\ r.theme = x[5]

Folded == handler = "fold" /\ pc = "done"

RouteRow(i, name) == rows[i].bin = <<"dynamic_page_cache">> /\ rows[i].route = name

\* the entry carries url (url, else url.path) and theme of the first of the
\* rows 1..n that has its route in bin dynamic_page_cache
FirstSeen(entry, n) ==
  \E f \in 1..n :
    /\ RouteRow(f, entry.name)
    /\ \A j \in 1..(f - 1) : ~RouteRow(j, entry.name)
    /\ entry.url = (IF Truthy(rows[f].url) THEN rows[f].url ELSE rows[f].urlPath)
    /\ entry.theme = rows[f].theme

KeyRoutes ==
  [ i \in 1..Len(keys) |-> [bin |-> BinOf(keys[i]), route |-> get(keys[i], <<"route">>)] ]

\* the scanned keys of bin dynamic_page_cache whose route label has value R
KeysOfRoute(kr, R) ==
  { i \in DOMAIN kr : kr[i].bin = <<"dynamic_page_cache">> /\ kr[i].route = R }

\* the values of the route labels of the scanned keys, and the names of the
\* route entries
RouteValues(kr) ==
  { kr[i].route : i \in DOMAIN kr } \cup
  { acc.routes[i].name : i \in 1..Len(acc.routes) }

\* route R has an entry iff some dynamic_page_cache key carries it, and the
\* entry counts those keys and sums their sizes
RouteEntryExact(kr, R) ==
  LET ks == KeysOfRoute(kr, R)
  IN  /\ (\E i \in 1..Len(acc.routes) : acc.routes[i].name = R) <=> ks # {}
      /\ \A i \in 1..Len(acc.routes) :
           acc.routes[i].name = R =>
             /\ acc.routes[i].count = Cardinality(ks)
             /\ acc.routes[i].bytes = SumBytes(ks)

\* C17 as stated: a route R has an entry in the route aggregate iff a
\* scanned key of bin dynamic_page_cache has a route label with value R,
\* with count the number of such keys and bytes the sum of their sizes.
C17_RouteEntryIff ==
  Folded =>
    LET kr == KeyRoutes
    IN  \A R \in RouteValues(kr) \ {Undef} : RouteEntryExact(kr, R)

\* C17 witness: route R is carried by two dynamic_page_cache keys and by a
\* key of bin render; its entry counts two keys and sums their two sizes
C17_Witness ==
  /\ Folded
  /\ KeysOfRoute(KeyRoutes, <<"R">>) = {1, 3}
  /\ rows[2] = RowRender
  /\ rows[1].bytesReply = Num(1) /\ rows[3].bytesReply = Num(3)
  /\ Len(acc.routes) = 1
  /\ acc.routes[1] = [name |-> <<"R">>, bytes |-> 4, count |-> 2,
                       url |-> Undef, theme |-> Undef]

\* scanned key i is of bin dynamic_page_cache and its context `label` has
\* exactly the value "true"
Flagged(i, label) ==
  rows[i].bin = <<"dynamic_page_cache">> /\ get(keys[i], label) = <<"true">>

FlaggedKeys(label) == { i \in 1..Len(keys) : Flagged(i, label) }

\* C18: anonCount (authCount) is the number of scanned dynamic_page_cache
\* keys whose user.roles:anonymous (user.roles:authenticated) value is
\* exactly "true"; other bins, an absent flag and values such as "1" or
\* "TRUE" add nothing: each row adds one to a counter exactly when its key
\* is such a key.
C18_AnonAuthCounters ==
  /\ [](Folded =>
         /\ response.authVsAnon.anonCount = Cardinality(FlaggedKeys(Anonymous))
         /\ response.authVsAnon.authCount = Cardinality(FlaggedKeys(Authenticated)))
  /\ [][(handler = "fold" /\ folded' = folded + 1) =>
          /\ acc'.anonCount =
               acc.anonCount + (IF Flagged(folded + 1, Anonymous) THEN 1 ELSE 0)
          /\ acc'.authCount =
               acc.authCount + (IF Flagged(folded + 1, Authenticated) THEN 1 ELSE 0)]_vars

\* C18 witness: an anonymous "true" key of bin render, a dynamic_page_cache
\* key flagged "1" and one flagged "true" on both labels: one count each
C18_Witness ==
  /\ Folded
  /\ rows = <<RowRender, RowOther, RowBoth>>
  /\ response.authVsAnon = [authCount |-> 1, anonCount |-> 1]

\* scanned key i had a numeric TTL >= 0
HasTtl(i) == rows[i].ttlReply.kind = "number" /\ rows[i].ttlReply.val >= 0

\* the non-negative TTLs of the first n scanned keys that are of bin b, in
\* scan order
RECURSIVE TtlsOfBin(_, _)
TtlsOfBin(b, n) ==
  IF n = 0 THEN <<>>
  ELSE IF rows[n].bin = b /\ HasTtl(n)
    THEN Append(TtlsOfBin(b, n - 1), rows[n].ttlReply.val)
    ELSE TtlsOfBin(b, n - 1)

\* round(x / 2) for an integer x >= 0, halves rounded up
HalfRounded(x) == IF x % 2 = 0 THEN x \div 2 ELSE (x + 1) \div 2

\* the first TTL, then new_avg = round((old_avg + new_ttl) / 2) for each next
RECURSIVE RunningAvg(_)
RunningAvg(ts) ==
  IF Len(ts) = 1 THEN ts[1]
  ELSE HalfRounded(RunningAvg(SubSeq(ts, 1, Len(ts) - 1)) + ts[Len(ts)])

\* C19: a bin's avgTTL is null iff none of its scanned keys had a numeric
\* TTL >= 0; otherwise it is the running pairwise average of the bin's
\* non-negative TTLs in scan order; a key whose TTL is -1 (PERSIST), -2 or
\* failed leaves the avgTTL of its bin unchanged.
C19_AvgTtlRunningAverage ==
  /\ [](handler = "fold" =>
         \A i \in 1..Len(acc.bins) :
           LET ts == TtlsOfBin(acc.bins[i].name, folded)
           IN  /\ acc.bins[i].avgTTL.kind = "null" <=> ts = <<>>
               /\ ts # <<>> => acc.bins[i].avgTTL = Num(RunningAvg(ts)))
  /\ [](Folded =>
         /\ \A n \in 1..Len(rows) :
              \E i \in 1..Len(response.bins) : response.bins[i].name = rows[n].bin
         /\ \A i \in 1..Len(response.bins) :
              LET ts == TtlsOfBin(response.bins[i].name, Len(rows))
              IN  response.bins[i].avgTTL =
                    IF ts = <<>> THEN Null ELSE Num(RunningAvg(ts)))
  /\ [][(handler = "fold" /\ folded' = folded + 1 /\ ~HasTtl(folded + 1)) =>
          \A i \in 1..Len(acc.bins) : acc'.bins[i].avgTTL = acc.bins[i].avgTTL]_vars

\* C19 witness: bin dynamic_page_cache saw TTL 5, then -2, then 8: its
\* avgTTL is round((5 + 8) / 2) = 7; with 5, 0, 8 it would be 6
C19_Witness ==
  /\ Folded
  /\ rows = <<RowFull, RowEmpty, RowOther>>
  /\ Len(response.bins) = 1
  /\ response.bins[1].avgTTL = Num(7)

\* the same entries, in some order
SameEntries(s, t) ==
  /\ Len(s) = Len(t)
  /\ \A i \in 1..Len(s) : \E j \in 1..Len(t) : t[j] = s[i]
  /\ \A j \in 1..Len(t) : \E i \in 1..Len(s) : s[i] = t[j]

\* C20: in every ok:true report bins is in non-increasing order of
\* totalBytes; themes and languages are in non-increasing order of bytes
\* and hold every accumulated entry; topRoutes is in non-increasing order of
\* bytes, has at most DRUPAL_TOP_LIMIT entries, all of them accumulated
\* routes, and no omitted route has more bytes than an included one.
C20_FinalisationOrder ==
  Folded =>
    /\ \A i, j \in 1..Len(response.bins) :
         i < j => response.bins[i].totalBytes >= response.bins[j].totalBytes
    /\ \A i, j \in 1..Len(response.themes) :
         i < j => response.themes[i].bytes >= response.themes[j].bytes
    /\ \A i, j \in 1..Len(response.languages) :
         i < j => response.languages[i].bytes >= response.languages[j].bytes
    /\ SameEntries(response.themes, acc.themes)
    /\ SameEntries(response.languages, acc.langs)
    /\ \A i, j \in 1..Len(response.topRoutes) :
         i < j => response.topRoutes[i].bytes >= response.topRoutes[j].bytes
    /\ Len(response.topRoutes) <= TOP_LIMIT
    /\ \A i \in 1..Len(response.topRoutes) :
         \E k \in 1..Len(acc.routes) : acc.routes[k] = response.topRoutes[i]
    /\ \A k \in 1..Len(acc.routes) :
         (\A i \in 1..Len(response.topRoutes) : response.topRoutes[i] # acc.routes[k]) =>
           \A i \in 1..Len(response.topRoutes) :
             acc.routes[k].bytes <= response.topRoutes[i].bytes

\* C20 witness: with DRUPAL_TOP_LIMIT 1 the later and larger route S is
\* reported and route R omitted, and the bin seen second is listed first
C20_Witness ==
  /\ Folded
  /\ TOP_LIMIT = 1
  /\ rows = <<RowPlain, RowBare, RowOther>>
  /\ Len(acc.routes) = 2 /\ acc.routes[1].name = <<"R">>
  /\ Len(response.topRoutes) = 1
  /\ response.topRoutes[1].name = <<"S">>
  /\ acc.bins[1].name = <<"render">>
  /\ response.bins[1].name = <<"dynamic_page_cache">>

\* a Record as a mapping: the order of the properties is dropped
AsMapping(sections) ==
  { [name |-> sections[i].name, value |-> Range(sections[i].value)] :
      i \in 1..Len(sections) }

\* the lines of the parsed text
InfoTextLines == Split(infoText, "\n")

\* a line that is neither empty nor a section marker and holds a key, a
\* colon and a remainder
KeyValueLine(line) ==
  /\ line # <<>>
  /\ Head(line) \notin {"#", ":"}
  /\ \E i \in 1..Len(line) : line[i] = ":"

\* the value the remainder after the first colon stands for: a number when
\* the whole remainder reads as one, else the trimmed remainder
WholeRemainder(line) ==
  LET i == CHOOSE i \in 1..Len(line) : line[i] = ":" /\ \A j \in 1..(i - 1) : line[j] # ":"
      rest == Drop(line, i)
  IN  [key |-> Take(line, i - 1),
       value |-> IF NumberOf(rest).kind = "number" THEN NumberOf(rest) ELSE Text(Trim(rest))]

\* some section of the mapping holds `value` under `key`
Stored(sections, key, value) ==
  \E i \in 1..Len(sections) : \E j \in 1..Len(sections[i].value) :
    /\ sections[i].value[j].name = key
    /\ sections[i].value[j].value.kind = value.kind
    /\ sections[i].value[j].value = value

\* C21: both info-text parsers split a key/value line on its first colon
\* only: the value stored for the key of the last line `k:v1:v2` of a text
\* is the whole remainder `v1:v2`, trimmed, a number only when the whole
\* remainder reads as a number.
C21_InfoSplitFirstColon ==
  LET lines == InfoTextLines
      last == lines[Len(lines)]
  IN  KeyValueLine(last) =>
        /\ "metrics" \in info.parsed =>
             Stored(info.metrics, WholeRemainder(last).key, WholeRemainder(last).value)
        /\ "summary" \in info.parsed =>
             Stored(info.summary, WholeRemainder(last).key, WholeRemainder(last).value)

\* a non-empty line without colon that is no section marker
NoColonLine(line) ==
  line # <<>> /\ Head(line) # "#" /\ \A i \in 1..Len(line) : line[i] # ":"

\* the text without its colon-less lines
WithoutNoColonLines == Join(SelectSeq(InfoTextLines, LAMBDA line : ~NoColonLine(line)))

\* the text "# Memory\r\nused_memory:100\r\n"
MemoryText == Join(<<LineMemory, LineUsedMemory, LineBlank>>)

MemorySection ==
  [name |-> <<"Memory">>, value |-> {[name |-> <<"used_memory">>, value |-> Num(100)]}]

\* colon-less lines change nothing in what either parser returns
NoColonLinesDropped ==
  /\ "metrics" \in info.parsed => info.metrics = parseInfo(WithoutNoColonLines)
  /\ "summary" \in info.parsed => info.summary = parseInfoSummary(WithoutNoColonLines)

\* C22 as stated: "# Memory\r\nused_memory:100\r\n" parses to exactly
\* {Memory: {used_memory: 100}}, no other section present, and colon-less
\* lines change nothing.
C22_InfoMemoryOnly ==
  /\ infoText = MemoryText =>
       /\ "metrics" \in info.parsed => AsMapping(info.metrics) = {MemorySection}
       /\ "summary" \in info.parsed => AsMapping(info.summary) = {MemorySection}
  /\ NoColonLinesDropped

\* C22 amended: "# Memory\r\nused_memory:100\r\n" parses to the empty
\* section "default" and {Memory: {used_memory: 100}}, nothing else, and
\* colon-less lines change nothing.
C22_InfoMemoryAndDefault ==
  LET expected == {[name |-> <<"default">>, value |-> {}], MemorySection}
  IN  /\ infoText = MemoryText =>
           /\ "metrics" \in info.parsed => AsMapping(info.metrics) = expected
           /\ "summary" \in info.parsed => AsMapping(info.summary) = expected
      /\ NoColonLinesDropped

\* C22 witness: both parsers have parsed the section marker, the
\* used_memory line and a colon-less line
C22_Witness ==
  /\ handler = "info" /\ pc = "done"
  /\ infoText = Join(<<LineMemory, LineUsedMemory, LineNoColon>>)
  /\ info.metrics = info.summary
  /\ AsMapping(info.metrics) = {[name |-> <<"default">>, value |-> {}], MemorySection}

\* C29: for every text the parser of the metrics handler and that of the
\* config-summary handler return the same section-to-key-to-value mapping,
\* bare "#" lines and blank lines included.
C29_InfoParsersEquivalent ==
  (handler = "info" /\ pc = "done") => AsMapping(info.metrics) = AsMapping(info.summary)

\* C24: in one aggregation request every scanned key gets exactly one TTL
\* command and exactly one MEMORY USAGE command, each issued `scanned`
\* times by the time of the report, whether they succeed or fail, and no
\* SCAN is issued after a SCAN call has failed.
C24_NoRetry ==
  /\ [](handler = "drupal" =>
          /\ issued.ttl = Len(rows) + (IF pc = "mem" THEN 1 ELSE 0)
          /\ issued.memory = Len(rows)
          /\ \A i \in 1..Len(rows) : rows[i].key = keys[i]
          /\ DrupalReported =>
               (issued.ttl = response.scanned /\ issued.memory = response.scanned))
  /\ [][(handler = "drupal" /\ "scan" \in failed) => issued'.scan = issued.scan]_vars

\* C24 witness: a report over one key after the second SCAN call failed;
\* the TTL and the MEMORY USAGE of the key both failed; one TTL and one
\* MEMORY USAGE command were issued
C24_Witness ==
  /\ DrupalReported
  /\ "scan" \in failed /\ issued.scan = 2
  /\ response.scanned = 1
  /\ rows[1].ttlReply = Fail
  /\ rows[1].bytesReply = Fail
  /\ issued.ttl = 1 /\ issued.memory = 1

\* the sum of field `field` over the entries of a report list
RECURSIVE SumField(_, _)
SumField(entries, field) ==
  IF entries = <<>> THEN 0
  ELSE Head(entries)[field] + SumField(Tail(entries), field)

\* C27: in every ok:true aggregation report the counts of the bins add up
\* to `scanned` and to the counts of the languages, the totalBytes of the
\* bins add up to the bytes of the languages, and the counts of the themes
\* add up to at most `scanned`.
C27_CountByteConservation ==
  Folded =>
    /\ SumField(response.bins, "count") = response.scanned
    /\ SumField(response.languages, "count") = response.scanned
    /\ SumField(response.bins, "totalBytes") = SumField(response.languages, "bytes")
    /\ SumField(response.themes, "count") <= response.scanned

\* the positions at which a scanned key occurs for the first time
FirstOccurrences == { i \in 1..Len(keys) : \A j \in 1..(i - 1) : keys[j] # keys[i] }

\* C30: when SCAN hands out the same key more than once during an
\* aggregation pass, `scanned` is the number of distinct keys visited, and
\* every bin counts each of its distinct keys once and adds its size once.
C30_DistinctKeysCountedOnce ==
  DrupalReported =>
    LET once == FirstOccurrences
    IN  /\ response.scanned = Cardinality(once)
        /\ \A j \in 1..Len(response.bins) :
             LET mine == { i \in once : rows[i].bin = response.bins[j].name }
             IN  /\ response.bins[j].count = Cardinality(mine)
                 /\ response.bins[j].totalBytes = SumBytes(mine)

Filtered == handler = "filter" /\ pc = "done"

\* `key` is `{prefix}:{b}:{c}`, alone or followed by context parameters
\* starting at "["
OfCid(key, b, c) ==
  LET head == CidKey(b, c, <<>>)
  IN  /\ StartsWith(key, head)
      /\ (Len(key) = Len(head) \/ key[Len(head) + 1] = "[")

\* C28: for every non-empty query cid, a cid holding ":" included, every
\* key `{prefix}:{bin}:{cid}` (alone or followed by context parameters
\* starting at "[") that SCAN returned before the limit was reached is among
\* the kept keys.
C28_SearchComplete ==
  (Filtered /\ Len(keys) < limit) =>
    \A i \in 1..Len(received) :
      (\E b \in FilterBins : (bin = Undef \/ bin = b) /\ OfCid(received[i], b, cid))
        => \E j \in 1..Len(keys) : keys[j] = received[i]

\* C26: when the body of POST /api/config/set carries the masked value as
\* REDIS_PASSWORD, the REDIS_PASSWORD the configuration file held before the
\* save is still in the file, unchanged, after it; so saving the
\* configuration as GET /api/config/get returned it keeps the password.
C26_MaskedPasswordKept ==
  (handler = "config" /\ pc = "saved" /\ config["REDIS_PASSWORD"] = Masked) =>
    envFile["REDIS_PASSWORD"] = env["REDIS_PASSWORD"]

\* C25: every aggregation request eventually returns a response, and the
\* scan loop is left at the SCAN call whose batch brings the scanned keys
\* to the cap, whatever cursor the store returned and however many keys the
\* namespace still holds.
C25_AggregationTerminates ==
  /\ (handler = "drupal") ~> (pc = "done" /\ response # NoResponse)
  /\ [][(handler = "drupal" /\ pc = "scan" /\ Len(keys') >= SCAN_LIMIT /\ keys' # keys)
          => (pc' # "scan" /\ cursor' = "0" /\ Len(keys') <= Len(keys) + Len(received') - Len(received))]_vars
  /\ [](handler = "drupal" /\ pc = "scan" /\ keys # <<>> => Len(keys) < SCAN_LIMIT)

\* C25 witness: the store handed out more keys than the cap of 1, and the
\* request reported the capped scan
C25_Witness ==
  /\ DrupalReported
  /\ SCAN_LIMIT = 1
  /\ Len(received) > SCAN_LIMIT
  /\ response.scanned = SCAN_LIMIT

\* the keys a request running alone scans: the batches from cursor `c` on,
\* pushed until the cap or the end of the iteration
RECURSIVE AloneKeys(_, _)
AloneKeys(ks, c) ==
  LET res == PushBatch(ks, store[c + 1], SCAN_LIMIT)
  IN  IF res.hit \/ c + 1 = Len(store) THEN res.keys ELSE AloneKeys(res.keys, c + 1)

\* the response of a request that runs alone against the store
AloneResponse ==
  LET ks == AloneKeys(<<>>, 0)
  IN  Report(ks, [ i \in 1..Len(ks) |-> MakeRow(ks[i], PairTtl(ks[i]), PairMem(ks[i])) ])

\* C23: of two aggregation requests whose store calls interleave against an
\* unchanging store, each returns the response it would return alone, no
\* request holds keys or rows another one pushed, and no request writes
\* outside its own locals.
C23_RequestIsolation ==
  handler = "pair" =>
    /\ \A i \in Requests :
         /\ reqs[i].pc = "done" => reqs[i].response = AloneResponse
         /\ Len(reqs[i].rows) <= Len(reqs[i].keys)
         /\ \A n \in 1..Len(reqs[i].rows) : reqs[i].rows[n].key = reqs[i].keys[n]
    /\ shared = {}

====
